---- MODULE Spec2Model ----
(***************************************************************************)
(* A model of redis-init: the dependency resolver                          *)
(* (lib/schema-loader.js, sortSchemasByDependencies), the schema load      *)
(* (loadSchemas / loadSchemaFromString), the transaction unit              *)
(* (lib/transactions.js, executeInTransaction) and the initialisation      *)
(* driver (lib/index.js, redisInit) with the store operations of its       *)
(* steps.  The store client is a collaborator: what it answers is a        *)
(* nondeterministic choice, what the program asks of it is recorded in     *)
(* the variable calls.                                                     *)
(***************************************************************************)
EXTENDS Integers, Sequences, FiniteSets, TLC

VARIABLES
  schemaFiles,      \* the parsed schema files, in the order globSync returned them
  config,           \* the options of the run (read-only for its duration)
  pc,               \* position of loadSchemas / loadSchemaFromString
  sortResult,       \* what sortSchemasByDependencies returned or threw
  fileIdx,          \* index into the sorted files of the file being processed
  batchStart,       \* loop variable i of the batch loop
  queued,           \* commands added to the open multi / pipeline
  inFlight,         \* number of exec calls issued and not yet settled
  commandsExecuted, \* the counter of loadSchemas
  errorCount,       \* the counter of loadSchemas
  execReply,        \* what the store answered to the last settled exec
  txResult,         \* the value executeInTransaction returned for the last unit
  loadResult,       \* the value the load resolved with
  ipc,              \* position of redisInit
  client,           \* whether redisInit holds a client
  initResult,       \* the value redisInit returns
  quitCalls,        \* number of client.quit calls
  calls,            \* every call made on the store client, in order
  seen,             \* what the caller keeps of the loads that resolved earlier
  content,          \* the text handed to parseSchemaContent / processTemplate
  parsed            \* what the call on that text returned

vars == <<schemaFiles, config, pc, sortResult, fileIdx, batchStart, queued,
          inFlight, commandsExecuted, errorCount, execReply, txResult,
          loadResult, ipc, client, initResult, quitCalls, calls, seen,
          content, parsed>>

loadVars == <<pc, sortResult, fileIdx, batchStart, queued, inFlight,
              commandsExecuted, errorCount, execReply, txResult, loadResult>>

initVars == <<ipc, client, initResult, quitCalls, seen, content, parsed>>

----------------------------------------------------------------------------
(* Bounds of the model.                                                    *)

MaxFiles == 3        \* files given to sortSchemasByDependencies
MaxDeps == 2         \* declared dependencies per file
MaxTotalDeps == 3    \* declared dependencies of all the files together
MaxLoadFiles == 2    \* files of one load
MaxCmds == 3         \* commands per file of a load
MaxBatchSize == 2    \* config.batchSize
MaxTotalCmds == 3    \* commands of all the files of a load together
MaxLoadDeps == 1     \* declared dependencies of all the files of a load together
MaxErrors == 2       \* errorCount: the failures the store answers in one load

----------------------------------------------------------------------------
(* Sequences.                                                              *)

Range(s) == {s[i] : i \in 1..Len(s)}

Min(a, b) == IF a < b THEN a ELSE b

\* Array.prototype.slice(from, to) on 0-based indexes, as a 1-based sequence
Slice(s, from, to) == SubSeq(s, from + 1, Min(to, Len(s)))

\* the sequences over S of length at most n with no element twice
DistinctSeqs(S, n) ==
  UNION {{s \in [1..k -> S] : \A i, j \in 1..k : i # j => s[i] # s[j]} :
         k \in 0..n}

----------------------------------------------------------------------------
(* Dependency resolver: lib/schema-loader.js, sortSchemasByDependencies.   *)

\* path.basename
Basename(p) == p.base

NoError == [kind |-> "none", schema |-> "", dep |-> ""]

\* the keys of dependencyMap in the order `for (name in dependencyMap)` visits
\* them: a key keeps the position of its first insertion.  Base names end in
\* .redis or .schema, so none is an array-index key.  (KeyOrderLastFirst: the
\* keys, were they visited from the last inserted to the first.)
RECURSIVE KeyOrderLastFirst(_)
KeyOrderLastFirst(fs) ==
  IF fs = <<>> THEN <<>>
  ELSE LET ko == KeyOrderLastFirst(Tail(fs))
           name == Basename(Head(fs).path)
       IN IF name \in Range(ko) THEN ko ELSE Append(ko, name)

RECURSIVE KeyOrder(_)
KeyOrder(fs) ==
  IF fs = <<>> THEN <<>>
  ELSE LET ko == KeyOrder(SubSeq(fs, 1, Len(fs) - 1))
           name == Basename(fs[Len(fs)].path)
       IN IF name \in Range(ko) THEN ko ELSE Append(ko, name)

\* the index of the file whose assignment to key `name` is the one that stays
LastWithName(fs, name) ==
  CHOOSE i \in 1..Len(fs) :
    /\ Basename(fs[i].path) = name
    /\ \A j \in (i + 1)..Len(fs) : Basename(fs[j].path) # name

\* dependencyMap[name] = schema.metadata.dependencies || []
DependencyMap(fs) ==
  [name \in Range(KeyOrder(fs)) |-> fs[LastWithName(fs, name)].deps]

\* nameToPath[name] = schema.path
NameToPath(fs) ==
  [name \in Range(KeyOrder(fs)) |-> fs[LastWithName(fs, name)].path]

\* dependencyMap[name] || []
DepsOf(depMap, name) == IF name \in DOMAIN depMap THEN depMap[name] ELSE <<>>

\* checkCircular(name, visited): visited is local to the path (a copy per call)
RECURSIVE checkCircular(_, _, _)
checkCircular(depMap, name, visited) ==
  IF name \in visited THEN TRUE
  ELSE \E k \in 1..Len(DepsOf(depMap, name)) :
         checkCircular(depMap, DepsOf(depMap, name)[k], visited \cup {name})

\* schemaFiles.find(s => path.basename(s.path) === name)
FindByName(fs, name) ==
  fs[CHOOSE i \in 1..Len(fs) :
       /\ Basename(fs[i].path) = name
       /\ \A j \in 1..(i - 1) : Basename(fs[j].path) # name]

\* visit(name), on the state st = [visited, result, error] it reads and writes
RECURSIVE visit(_, _, _)
RECURSIVE visitDeps(_, _, _, _)
visit(fs, name, st) ==
  IF st.error # NoError \/ name \in st.visited THEN st
  ELSE LET st1 == [st EXCEPT !.visited = @ \cup {name}]
           st2 == visitDeps(fs, name, DepsOf(DependencyMap(fs), name), st1)
       IN IF st2.error # NoError THEN st2
          ELSE [st2 EXCEPT !.result = Append(@, FindByName(fs, name))]

\* the loop over the dependencies, were a name without a file passed over
RECURSIVE visitDepsSkipMissing(_, _, _, _)
visitDepsSkipMissing(fs, name, deps, st) ==
  IF deps = <<>> \/ st.error # NoError THEN st
  ELSE IF Head(deps) \notin DOMAIN NameToPath(fs)
       THEN visitDepsSkipMissing(fs, name, Tail(deps), st)
       ELSE visitDepsSkipMissing(fs, name, Tail(deps), visit(fs, Head(deps), st))

\* the loop over the dependencies of name inside visit
visitDeps(fs, name, deps, st) ==
  IF deps = <<>> \/ st.error # NoError THEN st
  ELSE IF Head(deps) \notin DOMAIN NameToPath(fs)
       THEN [st EXCEPT !.error = [kind |-> "MissingDependency",
                                  schema |-> name, dep |-> Head(deps)]]
       ELSE visitDeps(fs, name, Tail(deps), visit(fs, Head(deps), st))

\* the loop `for (name in dependencyMap) visit(name)`
RECURSIVE visitAll(_, _, _)
visitAll(fs, names, st) ==
  IF names = <<>> THEN st
  ELSE visitAll(fs, Tail(names), visit(fs, Head(names), st))

\* the first key, in iteration order, for which checkCircular answers true
FirstCircular(fs) ==
  LET ko == KeyOrder(fs)
      hits == {i \in 1..Len(ko) : checkCircular(DependencyMap(fs), ko[i], {})}
  IN IF hits = {} THEN ""
     ELSE ko[CHOOSE i \in hits : \A j \in hits : i <= j]

\* sortSchemasByDependencies: [threw, error, order]
sortSchemasByDependencies(fs) ==
  IF FirstCircular(fs) # ""
  THEN [threw |-> TRUE, order |-> <<>>,
        error |-> [kind |-> "CircularDependency",
                   schema |-> FirstCircular(fs), dep |-> ""]]
  ELSE LET st == visitAll(fs, KeyOrder(fs),
                          [visited |-> {}, result |-> <<>>, error |-> NoError])
       IN IF st.error # NoError
          THEN [threw |-> TRUE, order |-> <<>>, error |-> st.error]
          ELSE [threw |-> FALSE, order |-> st.result, error |-> NoError]

----------------------------------------------------------------------------
(* Commands.  A string is a sequence of pieces, so that a prefix can be    *)
(* put before a key and a command can be joined into its text; a command   *)
(* is a sequence of such tokens, the verb first.                           *)

Verbs == <<"SET", "hset", "Del", "incr">>

Digits == <<"1", "2", "3", "4">>

\* String.prototype.toUpperCase on the pieces the model writes
UpperPiece(p) ==
  CASE p = "hset" -> "HSET"
    [] p = "Del" -> "DEL"
    [] p = "incr" -> "INCR"
    [] p = "eval" -> "EVAL"
    [] p = "ping" -> "PING"
    [] OTHER -> p

toUpperCase(token) == [i \in 1..Len(token) |-> UpperPiece(token[i])]

\* Array.prototype.join(' ')
RECURSIVE JoinSpace(_)
JoinSpace(cmd) ==
  IF cmd = <<>> THEN <<>>
  ELSE IF Len(cmd) = 1 THEN cmd[1]
  ELSE cmd[1] \o <<" ">> \o JoinSpace(Tail(cmd))

\* the k-th command of the schema file at `path`: its key is its own
Cmd(path, k) == << <<Verbs[k]>>, <<path.dir, "/", path.base, ":", Digits[k]>>, <<"v">> >>

CommandsOf(path, n) == [k \in 1..n |-> Cmd(path, k)]

\* [cmd, ...args] with cmd = command[0].toUpperCase(), as both executors send it
Sent(command) == <<toUpperCase(command[1])>> \o Tail(command)

----------------------------------------------------------------------------
(* Key prefix rewriter: lib/utils.js, applyPrefixToCommand.                *)

\* (LeadingKeyAndPing: a table that names PING among its verbs)
LeadingKeyAndPing == {"PING", "SET", "HSET", "DEL"}

firstArgKeyCommands ==
  {"APPEND", "DECR", "DECRBY", "DEL", "EXISTS", "EXPIRE", "EXPIREAT",
   "GET", "GETBIT", "GETRANGE", "GETSET", "HDEL", "HEXISTS", "HGET",
   "HGETALL", "HINCRBY", "HINCRBYFLOAT", "HKEYS", "HLEN", "HMGET",
   "HMSET", "HSET", "HSETNX", "HSTRLEN", "HVALS", "INCR", "INCRBY",
   "INCRBYFLOAT", "LINDEX", "LINSERT", "LLEN", "LPOP", "LPUSH",
   "LPUSHX", "LRANGE", "LREM", "LSET", "LTRIM", "PERSIST", "PEXPIRE",
   "PEXPIREAT", "PSETEX", "PTTL", "RENAME", "RENAMENX", "RPOP", "RPUSH",
   "RPUSHX", "SADD", "SCARD", "SDIFF", "SDIFFSTORE", "SET", "SETBIT",
   "SETEX", "SETNX", "SETRANGE", "SINTER", "SINTERSTORE", "SISMEMBER",
   "SMEMBERS", "SMOVE", "SPOP", "SRANDMEMBER", "SREM", "STRLEN",
   "SUNION", "SUNIONSTORE", "TTL", "TYPE", "ZADD", "ZCARD", "ZCOUNT",
   "ZINCRBY", "ZINTERSTORE", "ZLEXCOUNT", "ZRANGE", "ZRANGEBYLEX",
   "ZRANGEBYSCORE", "ZRANK", "ZREM", "ZREMRANGEBYLEX", "ZREMRANGEBYRANK",
   "ZREMRANGEBYSCORE", "ZREVRANGE", "ZREVRANGEBYLEX", "ZREVRANGEBYSCORE",
   "ZREVRANK", "ZSCORE", "ZUNIONSTORE"}

\* `${prefix}${arg}`
WithPrefix(prefix, arg) == prefix \o arg

DigitValue(p) ==
  CASE p = "0" -> 0 [] p = "1" -> 1 [] p = "2" -> 2 [] p = "3" -> 3
    [] p = "4" -> 4 [] p = "5" -> 5 [] p = "6" -> 6 [] p = "7" -> 7
    [] p = "8" -> 8 [] p = "9" -> 9 [] OTHER -> -1

\* parseInt(token, 10) on a token written one character per piece: the value
\* of its leading digits, -1 standing for NaN (and for every negative value,
\* which the caller treats alike)
RECURSIVE ParseDigits(_, _, _)
ParseDigits(token, i, acc) ==
  IF i > Len(token) \/ DigitValue(token[i]) < 0 THEN acc
  ELSE ParseDigits(token, i + 1, 10 * (IF acc < 0 THEN 0 ELSE acc) + DigitValue(token[i]))

\* (parseIntOne: a key count read as 1 whatever the token)
parseIntOne(token) == 1

parseInt(token) == ParseDigits(token, 1, -1)

\* String.prototype.includes for one of the glob characters
HasGlob(token) == \E i \in 1..Len(token) : token[i] \in {"*", "?", "["}

\* the verb of a command as one string (verbs are written as one piece)
VerbOf(command) == toUpperCase(command[1])[1]

\* the position (1-based, in args) of the pattern the SCAN case rewrites, 0 if none
ScanPattern(args) ==
  LET hits == {i \in 2..Len(args) :
                 toUpperCase(args[i]) = <<"MATCH">> /\ i + 1 <= Len(args)}
  IN IF hits = {} THEN 0
     ELSE LET first == CHOOSE i \in hits : \A j \in hits : i <= j
          IN IF HasGlob(args[first + 1]) THEN 0 ELSE first + 1

\* (applyPrefixNormalising: the rewriter, were it to skip the test of the
\* prefix and build [cmd, ...args] for an empty prefix too)
applyPrefixNormalising(command, prefix) ==
  IF prefix = <<>> /\ Len(command) > 0
  THEN <<toUpperCase(command[1])>> \o Tail(command)
  ELSE command

applyPrefixToCommand(command, prefix) ==
  IF prefix = <<>> \/ Len(command) = 0 THEN command
  ELSE LET cmd == VerbOf(command)
           args == Tail(command)
           rewritten ==
             CASE cmd \in {"MSET", "MSETNX"} ->
                    [i \in 1..Len(args) |->
                       IF i % 2 = 1 THEN WithPrefix(prefix, args[i]) ELSE args[i]]
               [] cmd = "MGET" ->
                    [i \in 1..Len(args) |-> WithPrefix(prefix, args[i])]
               [] cmd \in {"RENAME", "RENAMENX"} ->
                    [i \in 1..Len(args) |->
                       IF Len(args) >= 2 /\ i <= 2
                       THEN WithPrefix(prefix, args[i]) ELSE args[i]]
               [] cmd = "SCAN" ->
                    [i \in 1..Len(args) |->
                       IF i = ScanPattern(args)
                       THEN WithPrefix(prefix, args[i]) ELSE args[i]]
               [] cmd \in {"EVALSHA", "EVAL"} ->
                    [i \in 1..Len(args) |->
                       IF /\ Len(args) >= 2
                          /\ parseInt(args[2]) > 0
                          /\ i >= 3
                          /\ i < 3 + parseInt(args[2])
                       THEN WithPrefix(prefix, args[i]) ELSE args[i]]
               [] OTHER ->
                    [i \in 1..Len(args) |->
                       IF cmd \in firstArgKeyCommands /\ i = 1
                       THEN WithPrefix(prefix, args[i]) ELSE args[i]]
       IN <<toUpperCase(command[1])>> \o rewritten


----------------------------------------------------------------------------
(* The transaction unit: lib/transactions.js, executeInTransaction.        *)

\* mutant: the index of an entry counts from 1
RECURSIVE TxErrorsOneBased(_, _, _)
TxErrorsOneBased(commands, results, i) ==
  IF i > Len(results) THEN <<>>
  ELSE IF results[i].isError
       THEN <<[index |-> i,
               command |-> JoinSpace(commands[i]),
               error |-> results[i].message]>>
            \o TxErrorsOneBased(commands, results, i + 1)
       ELSE TxErrorsOneBased(commands, results, i + 1)

\* mutant: the scan of the replies stops at the first failed one
RECURSIVE TxErrorsFirstOnly(_, _, _)
TxErrorsFirstOnly(commands, results, i) ==
  IF i > Len(results) THEN <<>>
  ELSE IF results[i].isError
       THEN <<[index |-> i - 1,
               command |-> JoinSpace(commands[i]),
               error |-> results[i].message]>>
       ELSE TxErrorsFirstOnly(commands, results, i + 1)

\* the error entries built from the replies of multi.exec()
RECURSIVE TxErrors(_, _, _)
TxErrors(commands, results, i) ==
  IF i > Len(results) THEN <<>>
  ELSE IF results[i].isError
       THEN <<[index |-> i - 1,
               command |-> JoinSpace(commands[i]),
               error |-> results[i].message]>> \o TxErrors(commands, results, i + 1)
       ELSE TxErrors(commands, results, i + 1)

\* mutant: the replies of a resolved exec are not looked at
TxOutcomeUnchecked(commands, reply) ==
  IF reply.rejected
  THEN [success |-> FALSE, error |-> [msg |-> reply.message, n |-> 0]]
  ELSE [success |-> TRUE, commandsExecuted |-> Len(commands)]

\* what executeInTransaction returns once multi.exec() has settled with `reply`
TxOutcome(commands, reply) ==
  IF reply.rejected
  THEN [success |-> FALSE, error |-> [msg |-> reply.message, n |-> 0]]
  ELSE LET errors == TxErrors(commands, reply.results, 1)
       IN IF Len(errors) > 0
          THEN [success |-> FALSE,
                error |-> [msg |-> "Transaction had N errors", n |-> Len(errors)],
                errors |-> errors]
          ELSE [success |-> TRUE, commandsExecuted |-> Len(commands)]

\* what executeInTransaction returns when multi.sendCommand throws
TxAddFailed(message) ==
  [success |-> FALSE,
   error |-> [msg |-> "Failed to add command to transaction: " , n |-> 0,
              cause |-> message]]

\* the answers of the store to an exec of n queued commands
Replies == {[isError |-> FALSE, message |-> "OK"],
            [isError |-> TRUE, message |-> "ERR command failed"]}

ExecReplies(n) ==
  {[rejected |-> TRUE, message |-> "EXECABORT", results |-> <<>>]}
  \cup {[rejected |-> FALSE, message |-> "", results |-> r] : r \in [1..n -> Replies]}

NoReply == [rejected |-> FALSE, message |-> "none", results |-> <<>>]

NoResult == [pending |-> TRUE]

Call(op, cmds) == [op |-> op, cmds |-> cmds]

----------------------------------------------------------------------------
(* The load: lib/schema-loader.js, loadSchemas and loadSchemaFromString.   *)

DefaultBatchSize == 100

\* config.batchSize || 100
\* the batches, were config.batchSize not read
BatchSizeDefault == DefaultBatchSize

BatchSize == IF config.batchSize = 0 THEN DefaultBatchSize ELSE config.batchSize

\* mutant: the files are walked through in the order they were found
WorkInGlobOrder == schemaFiles

\* the files the load walks through: the sorted ones, or the one inline schema
Work == IF config.fromString THEN schemaFiles ELSE sortResult.order

CurrentCommands == Work[fileIdx].commands

\* config.prefix ? applyPrefixToCommand(cmd, config.prefix) : cmd
Processed(cmd) ==
  IF config.prefix # <<>> THEN applyPrefixToCommand(cmd, config.prefix) ELSE cmd

\* mutant: the dry-run option is not looked at
DryRunIgnored == FALSE

\* if (config.dryRun): nothing is executed
IsDryRun == config.dryRun

\* mutant: the load goes on after a failed ordering
OrderingNeverFails(sorted) == FALSE

\* the catch around the ordering: a throw of sortSchemasByDependencies ends the load
OrderingFailed(sorted) == sorted.threw

\* the flag, were the counted errors not looked at
SucceededAlways(count) == TRUE

\* success: errorCount === 0
Succeeded(count) == count = 0

\* loadSchemas up to its first loop, loadSchemaFromString up to its execution
LoadBegin ==
  /\ pc = "start"
  /\ IF config.fromString
     THEN IF ~config.hasContent
          THEN /\ loadResult' = [success |-> FALSE,
                                 details |-> "No schema content provided"]
               /\ pc' = "done"
               /\ UNCHANGED <<sortResult, fileIdx>>
          ELSE IF IsDryRun
          THEN /\ loadResult' = [success |-> TRUE, commandsExecuted |-> 0]
               /\ pc' = "done"
               /\ UNCHANGED <<sortResult, fileIdx>>
          ELSE /\ pc' = "file"
               /\ fileIdx' = 1
               /\ UNCHANGED <<sortResult, loadResult>>
     ELSE IF ~config.dirExists
          THEN /\ loadResult' = [success |-> FALSE,
                                 details |-> "Schemas directory not found"]
               /\ pc' = "done"
               /\ UNCHANGED <<sortResult, fileIdx>>
          ELSE IF Len(schemaFiles) = 0
          THEN /\ loadResult' = [success |-> TRUE, commandsExecuted |-> 0,
                                 filesProcessed |-> 0]
               /\ pc' = "done"
               /\ UNCHANGED <<sortResult, fileIdx>>
          ELSE /\ sortResult' = sortSchemasByDependencies(schemaFiles)
               /\ IF OrderingFailed(sortResult')
                  THEN /\ loadResult' = [success |-> FALSE,
                                         details |-> sortResult'.error]
                       /\ pc' = "done"
                       /\ UNCHANGED fileIdx
                  ELSE /\ pc' = "file"
                       /\ fileIdx' = 1
                       /\ UNCHANGED loadResult
  /\ UNCHANGED <<schemaFiles, config, batchStart, queued, inFlight,
                 commandsExecuted, errorCount, execReply, txResult, calls>>
  /\ UNCHANGED initVars

\* the head of the loop over the files, and the return after it
LoadFile ==
  /\ pc = "file"
  /\ IF fileIdx > Len(Work)
     THEN /\ loadResult' =
               IF config.fromString
               THEN [success |-> Succeeded(errorCount),
                     commandsExecuted |-> commandsExecuted,
                     errorCount |-> errorCount]
               ELSE [success |-> Succeeded(errorCount),
                     commandsExecuted |-> commandsExecuted,
                     filesProcessed |-> Len(schemaFiles),
                     errorCount |-> errorCount]
          /\ pc' = "done"
          /\ UNCHANGED <<fileIdx, batchStart>>
     ELSE IF IsDryRun
     THEN /\ fileIdx' = fileIdx + 1
          /\ UNCHANGED <<pc, loadResult, batchStart>>
     ELSE IF config.useTransactions /\ Len(CurrentCommands) > 0
     THEN /\ pc' = "tx"
          /\ UNCHANGED <<fileIdx, loadResult, batchStart>>
     ELSE /\ pc' = "batch"
          /\ batchStart' = 0
          /\ UNCHANGED <<fileIdx, loadResult>>
  /\ UNCHANGED <<schemaFiles, config, sortResult, queued, inFlight,
                 commandsExecuted, errorCount, execReply, txResult, calls>>
  /\ UNCHANGED initVars

\* executeInTransaction from client.multi() to the call of multi.exec():
\* thrower is the first command multi.sendCommand throws on, 0 if none
TxSubmit ==
  /\ pc = "tx"
  /\ \E thrower \in 0..Len(CurrentCommands) :
       IF thrower > 0
       THEN /\ txResult' = TxAddFailed("ERR rejected")
            /\ errorCount' = errorCount + 1
            /\ fileIdx' = fileIdx + 1
            /\ pc' = "file"
            /\ calls' = Append(calls, Call("multi", <<>>))
            /\ UNCHANGED <<queued, inFlight>>
       ELSE /\ queued' = [k \in 1..Len(CurrentCommands) |->
                            Sent(Processed(CurrentCommands[k]))]
            /\ inFlight' = inFlight + 1
            /\ pc' = "awaitTx"
            /\ calls' = calls \o <<Call("multi", <<>>), Call("exec", queued')>>
            /\ UNCHANGED <<txResult, errorCount, fileIdx>>
  /\ UNCHANGED <<schemaFiles, config, sortResult, batchStart,
                 commandsExecuted, execReply, loadResult>>
  /\ errorCount' <= MaxErrors
  /\ UNCHANGED initVars

\* multi.exec() settles: the rest of executeInTransaction and what the load
\* does with its result
TxSettle ==
  /\ pc = "awaitTx"
  /\ \E reply \in ExecReplies(Len(queued)) :
       /\ execReply' = reply
       /\ txResult' = TxOutcome([k \in 1..Len(CurrentCommands) |->
                                   Processed(CurrentCommands[k])], reply)
  /\ inFlight' = inFlight - 1
  /\ IF txResult'.success
     THEN /\ commandsExecuted' = commandsExecuted + Len(CurrentCommands)
          /\ UNCHANGED errorCount
     ELSE /\ errorCount' = errorCount + 1
          /\ UNCHANGED commandsExecuted
  /\ fileIdx' = fileIdx + 1
  /\ pc' = "file"
  /\ queued' = <<>>
  /\ calls' = Append(calls, Call("settled", <<>>))
  /\ UNCHANGED <<schemaFiles, config, sortResult, batchStart, loadResult>>
  /\ errorCount' <= MaxErrors
  /\ UNCHANGED initVars

\* one round of the batch loop up to the call of pipeline.exec(): throwers
\* are the commands of the batch pipeline.sendCommand throws on
BatchSubmit ==
  /\ pc = "batch"
  /\ IF batchStart >= Len(CurrentCommands)
     THEN /\ fileIdx' = fileIdx + 1
          /\ pc' = "file"
          /\ UNCHANGED <<queued, inFlight, errorCount, calls>>
     ELSE LET batch == Slice(CurrentCommands, batchStart, batchStart + BatchSize)
          IN \E throwers \in SUBSET (1..Len(batch)) :
               /\ errorCount' = errorCount + Cardinality(throwers)
               /\ queued' = SelectSeq([k \in 1..Len(batch) |->
                                          IF k \in throwers THEN <<>>
                                          ELSE Sent(Processed(batch[k]))],
                                      LAMBDA c : c # <<>>)
               /\ inFlight' = inFlight + 1
               /\ pc' = "awaitBatch"
               /\ calls' = calls \o <<Call("pipeline", <<>>), Call("exec", queued')>>
               /\ UNCHANGED fileIdx
  /\ UNCHANGED <<schemaFiles, config, sortResult, batchStart,
                 commandsExecuted, execReply, txResult, loadResult>>
  /\ errorCount' <= MaxErrors
  /\ UNCHANGED initVars

\* pipeline.exec() settles: the counters, and the next round
BatchSettle ==
  /\ pc = "awaitBatch"
  /\ \E rejected \in BOOLEAN :
       /\ execReply' = [rejected |-> rejected,
                        message |-> IF rejected THEN "ERR pipeline" ELSE "",
                        results |-> <<>>]
       /\ IF rejected
          THEN /\ errorCount' = errorCount + 1
               /\ UNCHANGED commandsExecuted
          ELSE /\ commandsExecuted' = commandsExecuted +
                    Len(Slice(CurrentCommands, batchStart, batchStart + BatchSize))
               /\ UNCHANGED errorCount
  /\ inFlight' = inFlight - 1
  /\ batchStart' = batchStart + BatchSize
  /\ pc' = "batch"
  /\ queued' = <<>>
  /\ calls' = Append(calls, Call("settled", <<>>))
  /\ UNCHANGED <<schemaFiles, config, sortResult, fileIdx, txResult, loadResult>>
  /\ errorCount' <= MaxErrors
  /\ UNCHANGED initVars

----------------------------------------------------------------------------
(* The runs of a load called on its own.                                   *)

Path(d, b) == [dir |-> d, base |-> b]

\* two directories, one base name present in both
LoadPaths == {Path("p", "a"), Path("p", "b"), Path("q", "a")}

LoadDeps == {<<>>, <<"a">>, <<"b">>}

SchemaFile(path, deps, n) ==
  [path |-> path, deps |-> deps, commands |-> CommandsOf(path, n)]

DistinctPaths(fs) ==
  \A i, j \in 1..Len(fs) : i # j => fs[i].path # fs[j].path

RECURSIVE TotalCommands(_)
TotalCommands(fs) ==
  IF fs = <<>> THEN 0 ELSE Len(fs[1].commands) + TotalCommands(Tail(fs))

RECURSIVE DeclaredIn(_)
DeclaredIn(fs) ==
  IF fs = <<>> THEN 0 ELSE Len(fs[1].deps) + DeclaredIn(Tail(fs))

LoadInputs ==
  LET one == {SchemaFile(p, d, n) : p \in LoadPaths, d \in LoadDeps, n \in 0..MaxCmds}
  IN {fs \in UNION {[1..k -> one] : k \in 0..MaxLoadFiles} :
        /\ DistinctPaths(fs)
        /\ TotalCommands(fs) <= MaxTotalCmds
        /\ DeclaredIn(fs) <= MaxLoadDeps}

\* the inline schema of loadSchemaFromString
InlineInputs ==
  {<<SchemaFile(Path("", "inline-schema"), <<>>, n)>> : n \in 0..MaxCmds}

\* the options redisInit reads and the load does not
NoInitOptions ==
  [createThrows |-> FALSE, database |-> 0, performHealthCheck |-> FALSE,
   backupFile |-> FALSE, flush |-> FALSE, flushMode |-> "db",
   interactive |-> FALSE, ttlRules |-> FALSE, aclSetup |-> FALSE,
   scripts |-> 0]

LoadOptions ==
  [fromString : BOOLEAN, hasContent : BOOLEAN, dirExists : BOOLEAN,
   dryRun : BOOLEAN, useTransactions : BOOLEAN,
   batchSize : 0..MaxBatchSize, prefix : {<<>>, <<"app:">>}]

\* f @@ g for records
Merge(f, g) == [k \in DOMAIN f \cup DOMAIN g |-> IF k \in DOMAIN f THEN f[k] ELSE g[k]]

\* a directory that does not exist holds no file; an absent content no command;
\* a load that executes in transactions never reads batchSize
Coherent(opts, files) ==
  /\ opts.useTransactions /\ ~opts.dryRun => opts.batchSize = 0
  /\ opts.fromString => opts.dirExists /\ files \in InlineInputs
  /\ opts.fromString /\ ~opts.hasContent => files[1].commands = <<>>
  /\ ~opts.fromString => opts.hasContent /\ files \in LoadInputs
  /\ ~opts.dirExists => files = <<>>

LoadIdle ==
  /\ sortResult = [threw |-> FALSE, order |-> <<>>, error |-> NoError]
  /\ fileIdx = 0
  /\ batchStart = 0
  /\ queued = <<>>
  /\ inFlight = 0
  /\ commandsExecuted = 0
  /\ errorCount = 0
  /\ execReply = NoReply
  /\ txResult = NoResult
  /\ loadResult = NoResult
  /\ calls = <<>>

Init ==
  /\ schemaFiles \in LoadInputs \cup InlineInputs
  /\ \E opts \in LoadOptions :
       /\ Coherent(opts, schemaFiles)
       /\ config = Merge(opts, NoInitOptions)
  /\ pc = "start"
  /\ LoadIdle
  /\ ipc = "none"
  /\ client = FALSE
  /\ initResult = NoResult
  /\ quitCalls = 0
  /\ seen = {}
  /\ content = <<>>
  /\ parsed = <<>>

Next == LoadBegin \/ LoadFile \/ TxSubmit \/ TxSettle \/ BatchSubmit \/ BatchSettle

Spec == Init /\ [][Next]_vars


----------------------------------------------------------------------------
(* Properties of the load (checked under Spec).                            *)

\* the commands of the exec calls made so far, in the order they were submitted
RECURSIVE SubmittedFrom(_, _)
SubmittedFrom(cs, i) ==
  IF i > Len(cs) THEN <<>>
  ELSE IF cs[i].op = "exec" THEN cs[i].cmds \o SubmittedFrom(cs, i + 1)
  ELSE SubmittedFrom(cs, i + 1)

Submitted == SubmittedFrom(calls, 1)

\* the commands of the files `fs`, file after file, as the executors send them
RECURSIVE Flat(_)
Flat(fs) ==
  IF fs = <<>> THEN <<>>
  ELSE [k \in 1..Len(fs[1].commands) |-> Sent(Processed(fs[1].commands[k]))]
       \o Flat(Tail(fs))

\* the order the load has to follow: the resolver's, or the inline schema
ExpectedOrder ==
  IF config.fromString THEN schemaFiles ELSE sortResult.order

PositionIn(s, x) == CHOOSE i \in 1..Len(s) : s[i] = x

ExecCalls == {i \in 1..Len(calls) : calls[i].op = "exec"}

\* C1: submissions are sequential and ordered: the commands submitted so far
\* occur in the order of the dependency-sorted files and of their parsed
\* position in the file, and every exec has settled before any later call on
\* the client (no two submissions overlap)
C1_SequentialOrdered ==
  /\ inFlight <= 1
  /\ \A i \in ExecCalls : i < Len(calls) => calls[i + 1].op = "settled"
  /\ inFlight = 1 <=> Len(calls) \in ExecCalls
  /\ Range(Submitted) \subseteq Range(Flat(ExpectedOrder))
  /\ \A i, j \in 1..Len(Submitted) :
       i < j => PositionIn(Flat(ExpectedOrder), Submitted[i])
                  < PositionIn(Flat(ExpectedOrder), Submitted[j])

\* two files submitted, in an order that is not the input order
C1_Witness ==
  /\ pc = "done"
  /\ ~config.fromString
  /\ Len(schemaFiles) = 2
  /\ sortResult.order = <<schemaFiles[2], schemaFiles[1]>>
  /\ Cardinality(ExecCalls) >= 3
  /\ Len(Submitted) >= 3

\* C5: when the ordering fails nothing is executed: no multi, no pipeline, no
\* exec, and the load ends at once with success = false
C5_OrderingFailureAborts ==
  sortResult.threw =>
    /\ calls = <<>>
    /\ pc = "done"
    /\ "success" \in DOMAIN loadResult
    /\ loadResult.success = FALSE
    /\ commandsExecuted = 0

C5_Witness ==
  /\ sortResult.threw
  /\ sortResult.error.kind = "MissingDependency"
  /\ ~config.dryRun
  /\ \E i \in 1..Len(schemaFiles) : Len(schemaFiles[i].commands) > 0
  /\ pc = "done"

HasCount(result) == "commandsExecuted" \in DOMAIN result

\* C6 as stated: under dryRun no multi, pipeline or exec, and the result
\* reports commandsExecuted = 0
C6_DryRunAsStated ==
  config.dryRun =>
    /\ calls = <<>>
    /\ pc = "done" => HasCount(loadResult) /\ loadResult.commandsExecuted = 0

\* C6 amended: under dryRun no multi, pipeline or exec is ever called; a
\* result that carries a count reports commandsExecuted = 0, and the result
\* carries none (success = false, details) exactly when the load stopped
\* before its loop: directory missing, no inline content, ordering failed
C6_DryRun ==
  config.dryRun =>
    /\ calls = <<>>
    /\ commandsExecuted = 0
    /\ pc = "done" =>
         IF HasCount(loadResult)
         THEN loadResult.commandsExecuted = 0 /\ loadResult.success
         ELSE /\ ~loadResult.success
              /\ \/ sortResult.threw
                 \/ ~config.dirExists
                 \/ config.fromString /\ ~config.hasContent

C6_Witness ==
  /\ config.dryRun
  /\ config.useTransactions
  /\ pc = "done"
  /\ HasCount(loadResult)
  /\ Len(schemaFiles) = 2
  /\ \A i \in 1..2 : Len(schemaFiles[i].commands) > 0

\* the unit of the step was reported failed: rejected, or a failed command
UnitFailed(reply) ==
  reply.rejected \/ \E i \in 1..Len(reply.results) : reply.results[i].isError

\* C8: in transaction mode a file counts all or nothing: a unit reported
\* failed (or rejected while it is queued) adds nothing to commandsExecuted
\* and exactly one to errorCount; a unit with no failure adds all its commands
C8_AllOrNothing ==
  [][/\ pc = "awaitTx" /\ pc' # "awaitTx" =>
          IF UnitFailed(execReply')
          THEN /\ commandsExecuted' = commandsExecuted
               /\ errorCount' = errorCount + 1
          ELSE /\ commandsExecuted' = commandsExecuted + Len(CurrentCommands)
               /\ errorCount' = errorCount
     /\ pc = "tx" /\ pc' = "file" =>
          /\ commandsExecuted' = commandsExecuted
          /\ errorCount' = errorCount + 1]_vars

\* a unit of three commands of which one failed has gone by, uncounted
C8_Witness ==
  /\ config.useTransactions
  /\ pc = "file"
  /\ fileIdx = 2
  /\ Len(Work[1].commands) = 3
  /\ ~execReply.rejected
  /\ Len(execReply.results) = 3
  /\ execReply.results[2].isError
  /\ ~execReply.results[1].isError
  /\ commandsExecuted = 0
  /\ errorCount = 1

FailedIn(results) == {i \in 1..Len(results) : results[i].isError}

\* C9: executeInTransaction reports one error entry per command the store
\* reported failed, in order, each with the command's index, text and message,
\* and success = false as soon as there is one; whatever the other replies
C9_ErrorEntries ==
  [][pc = "awaitTx" /\ pc' # "awaitTx" /\ ~execReply'.rejected =>
       LET failed == FailedIn(execReply'.results)
           unit == [k \in 1..Len(CurrentCommands) |-> Processed(CurrentCommands[k])]
       IN IF failed = {}
          THEN txResult'.success /\ "errors" \notin DOMAIN txResult'
          ELSE /\ ~txResult'.success
               /\ Len(txResult'.errors) = Cardinality(failed)
               /\ \A k \in 1..Len(txResult'.errors) :
                    LET e == txResult'.errors[k]
                    IN /\ e.index + 1 \in failed
                       /\ e.command = JoinSpace(unit[e.index + 1])
                       /\ e.error = execReply'.results[e.index + 1].message
               /\ \A k, l \in 1..Len(txResult'.errors) :
                    k < l => txResult'.errors[k].index < txResult'.errors[l].index]_vars

\* the 2nd of 3 commands failed: one entry, index 1
C9_Witness ==
  /\ "errors" \in DOMAIN txResult
  /\ Len(txResult.errors) = 1
  /\ txResult.errors[1].index = 1
  /\ Len(execReply.results) = 3
  /\ ~execReply.results[1].isError
  /\ ~execReply.results[3].isError
  /\ ~txResult.success

RECURSIVE ExecSeqFrom(_, _)
ExecSeqFrom(cs, i) ==
  IF i > Len(cs) THEN <<>>
  ELSE IF cs[i].op = "exec" THEN <<cs[i].cmds>> \o ExecSeqFrom(cs, i + 1)
  ELSE ExecSeqFrom(cs, i + 1)

ExecSeq == ExecSeqFrom(calls, 1)

\* cmds cut into consecutive pieces of b commands, the last one shorter
RECURSIVE Chunks(_, _)
Chunks(cmds, b) ==
  IF cmds = <<>> THEN <<>>
  ELSE IF Len(cmds) <= b THEN <<cmds>>
  ELSE <<SubSeq(cmds, 1, b)>> \o Chunks(SubSeq(cmds, b + 1, Len(cmds)), b)

\* the batches of the files fs, file after file
RECURSIVE ExpectedBatches(_, _)
ExpectedBatches(fs, b) ==
  IF fs = <<>> THEN <<>>
  ELSE Chunks(Flat(<<fs[1]>>), b) \o ExpectedBatches(Tail(fs), b)

\* the commands of the batches exp that are not in the exec calls got
RECURSIVE LeftOut(_, _, _)
LeftOut(exp, got, j) ==
  IF j > Len(got) THEN 0
  ELSE (Len(exp[j]) - Len(got[j])) + LeftOut(exp, got, j + 1)

Pipelined == ~config.useTransactions /\ ~config.dryRun /\ config.batchSize > 0

StepRank ==
  IF pc = "done" THEN 2 ELSE IF pc \in {"tx", "batch"} THEN 1 ELSE 0

Progress == 3 * Len(calls) + 3 * fileIdx + StepRank

\* a load that has begun and has no result yet is never stuck: the step its
\* position calls for can be taken
CanStep ==
  /\ pc \in {"start", "file", "tx", "awaitTx", "batch", "awaitBatch"}
  /\ pc = "file" => ENABLED LoadFile
  /\ pc = "tx" => ENABLED TxSubmit
  /\ pc = "awaitTx" => ENABLED TxSettle
  /\ pc = "batch" => ENABLED BatchSubmit
  /\ pc = "awaitBatch" => ENABLED BatchSettle

\* the load stopped before its loop: no directory, no content, no order
StoppedEarly ==
  \/ ~config.fromString /\ ~config.dirExists
  \/ config.fromString /\ ~config.hasContent
  \/ ~config.fromString /\ sortResult.threw

----------------------------------------------------------------------------
(* The runs of sortSchemasByDependencies called on its own.                *)

\* three base names, one of them in two directories
SortPaths == {Path("p", "a"), Path("p", "b"), Path("p", "c"), Path("q", "a")}

DepNames == {"a", "b", "c"}

\* the files of ps, in that order, with the dependency lists ds
Declared(ps, ds) ==
  [i \in 1..Len(ps) |-> [path |-> ps[i], deps |-> ds[i], commands |-> <<>>]]

\* the number of dependencies the lists ds declare together
RECURSIVE TotalDeps(_)
TotalDeps(ds) ==
  IF ds = <<>> THEN 0 ELSE Len(Head(ds)) + TotalDeps(Tail(ds))

SortInit ==
  /\ \E ps \in DistinctSeqs(SortPaths, MaxFiles) \ {<<>>} :
       \E ds \in [1..Len(ps) -> DistinctSeqs(DepNames, MaxDeps)] :
         /\ TotalDeps(ds) <= MaxTotalDeps
         /\ schemaFiles = Declared(ps, ds)
  /\ config = Merge([fromString |-> FALSE, hasContent |-> TRUE, dirExists |-> TRUE,
                     dryRun |-> FALSE, useTransactions |-> FALSE,
                     batchSize |-> 0, prefix |-> <<>>], NoInitOptions)
  /\ pc = "sort"
  /\ LoadIdle
  /\ ipc = "none"
  /\ client = FALSE
  /\ initResult = NoResult
  /\ quitCalls = 0
  /\ seen = {}
  /\ content = <<>>
  /\ parsed = <<>>

\* a call of sortSchemasByDependencies(schemaFiles)
SortCall ==
  /\ pc = "sort"
  /\ sortResult' = sortSchemasByDependencies(schemaFiles)
  /\ pc' = "sorted"
  /\ UNCHANGED <<schemaFiles, config, fileIdx, batchStart, queued, inFlight,
                 commandsExecuted, errorCount, execReply, txResult, loadResult,
                 calls>>
  /\ UNCHANGED initVars

SortNext == SortCall

SpecSort == SortInit /\ [][SortNext]_vars

----------------------------------------------------------------------------
(* Properties of the resolver (checked under SpecSort).                    *)

BaseNames(fs) == {Basename(fs[i].path) : i \in 1..Len(fs)}

\* file i declares file j as a dependency
Declares(fs, i, j) == Basename(fs[j].path) \in Range(fs[i].deps)

\* the files reachable from the set S of files along declared dependencies
RECURSIVE Reachable(_, _)
Reachable(fs, S) ==
  LET more == S \cup {j \in 1..Len(fs) : \E i \in S : Declares(fs, i, j)}
  IN IF more = S THEN S ELSE Reachable(fs, more)

\* file i is on a cycle of declared dependencies
OnCycle(fs, i) ==
  \E j \in 1..Len(fs) : Declares(fs, i, j) /\ i \in Reachable(fs, {j})

HasCycle(fs) == \E i \in 1..Len(fs) : OnCycle(fs, i)

\* a declared dependency of file i that names no input file
MissingOf(fs, i) == Range(fs[i].deps) \ BaseNames(fs)

HasMissing(fs) == \E i \in 1..Len(fs) : MissingOf(fs, i) # {}

DistinctNames(fs) ==
  \A i, j \in 1..Len(fs) : i # j => Basename(fs[i].path) # Basename(fs[j].path)

\* C2 as stated: on an acyclic, fully satisfied input the order is returned
\* and no file of it stands before a file it declares as a dependency
C2_DependenciesFirst ==
  pc = "sorted" /\ ~HasCycle(schemaFiles) /\ ~HasMissing(schemaFiles) =>
    /\ ~sortResult.threw
    /\ \A k, l \in 1..Len(sortResult.order) :
         Basename(sortResult.order[l].path) \in Range(sortResult.order[k].deps)
           => l < k

\* C2 on inputs whose base names are all different
C2_DependenciesFirstDistinctNames ==
  pc = "sorted" /\ DistinctNames(schemaFiles)
    /\ ~HasCycle(schemaFiles) /\ ~HasMissing(schemaFiles) =>
    /\ ~sortResult.threw
    /\ Range(sortResult.order) = Range(schemaFiles)
    /\ \A k, l \in 1..Len(sortResult.order) :
         Basename(sortResult.order[l].path) \in Range(sortResult.order[k].deps)
           => l < k

\* C3 as stated: an input with a cycle of declared dependencies makes the
\* resolver fail with the circular-dependency error, naming an input schema
\* from which the cycle is entered
C3_CycleRaises ==
  pc = "sorted" /\ HasCycle(schemaFiles) =>
    /\ sortResult.threw
    /\ sortResult.order = <<>>
    /\ sortResult.error.kind = "CircularDependency"
    /\ \E i \in 1..Len(schemaFiles) :
         /\ Basename(schemaFiles[i].path) = sortResult.error.schema
         /\ \E j \in Reachable(schemaFiles, {i}) : OnCycle(schemaFiles, j)

\* C3 on inputs whose base names are all different
C3_CycleRaisesDistinctNames ==
  DistinctNames(schemaFiles) => C3_CycleRaises

\* C4 as stated: a declared dependency that names no input file always makes
\* the resolver fail with the missing-dependency error, naming the file and
\* the name
C4_MissingRaisesAsStated ==
  pc = "sorted" /\ HasMissing(schemaFiles) =>
    /\ sortResult.threw
    /\ sortResult.error.kind = "MissingDependency"
    /\ \E i \in 1..Len(schemaFiles) :
         /\ Basename(schemaFiles[i].path) = sortResult.error.schema
         /\ sortResult.error.dep \in MissingOf(schemaFiles, i)

\* the declarations the resolver keeps: per base name, those of the last
\* input file with that name
Kept(fs) == {i \in 1..Len(fs) : i = LastWithName(fs, Basename(fs[i].path))}

KeptCycle(fs) ==
  \E i \in Kept(fs) :
    \E j \in Kept(fs) :
      /\ Declares(fs, i, j)
      /\ i \in Reachable([k \in 1..Len(fs) |->
                            IF k \in Kept(fs) THEN fs[k]
                            ELSE [fs[k] EXCEPT !.deps = <<>>]], {j})

KeptMissing(fs) == \E i \in Kept(fs) : MissingOf(fs, i) # {}

\* C4 amended: when the declarations kept for the base names hold no cycle
\* and one of them names no input file, the resolver fails with the
\* missing-dependency error naming that base name and the missing name; when
\* they hold a cycle as well, the circular-dependency error is raised instead
C4_MissingRaises ==
  pc = "sorted" /\ KeptMissing(schemaFiles) =>
    /\ sortResult.threw
    /\ sortResult.order = <<>>
    /\ IF KeptCycle(schemaFiles)
       THEN sortResult.error.kind = "CircularDependency"
       ELSE /\ sortResult.error.kind = "MissingDependency"
            /\ \E i \in Kept(schemaFiles) :
                 /\ Basename(schemaFiles[i].path) = sortResult.error.schema
                 /\ sortResult.error.dep \in MissingOf(schemaFiles, i)

\* a missing name behind a satisfied one, in a file that is not the first
C4_Witness ==
  /\ pc = "sorted"
  /\ sortResult.threw
  /\ sortResult.error.kind = "MissingDependency"
  /\ Len(schemaFiles) = 2
  /\ DistinctNames(schemaFiles)
  /\ sortResult.error.schema = Basename(schemaFiles[2].path)
  /\ Len(schemaFiles[2].deps) = 2
  /\ sortResult.error.dep = schemaFiles[2].deps[2]

\* C15: on an acyclic, fully satisfied input, ordering the returned order
\* again returns it unchanged
C15_Idempotent ==
  pc = "sorted" /\ ~HasCycle(schemaFiles) /\ ~HasMissing(schemaFiles) =>
    /\ ~sortResult.threw
    /\ sortSchemasByDependencies(sortResult.order) =
         [threw |-> FALSE, order |-> sortResult.order, error |-> NoError]

\* C15 on inputs whose base names are all different
C15_IdempotentDistinctNames ==
  DistinctNames(schemaFiles) => C15_Idempotent

\* neither of the files i and j depends on the other, directly or not
Independent(fs, i, j) ==
  /\ i # j
  /\ j \notin Reachable(fs, {i})
  /\ i \notin Reachable(fs, {j})

\* the place of the input file f in the returned order, 0 if it is not there
OutputPlace(f) ==
  IF \E k \in 1..Len(sortResult.order) : sortResult.order[k] = f
  THEN CHOOSE k \in 1..Len(sortResult.order) : sortResult.order[k] = f
  ELSE 0

\* C16 as stated: two input files neither of which depends on the other are
\* returned in their relative input order
C16_IndependentKeepInputOrder ==
  pc = "sorted" /\ ~sortResult.threw =>
    \A i, j \in 1..Len(schemaFiles) :
      i < j /\ Independent(schemaFiles, i, j) =>
        /\ OutputPlace(schemaFiles[i]) > 0
        /\ OutputPlace(schemaFiles[i]) < OutputPlace(schemaFiles[j])

\* C16 as stated, on inputs whose base names are all different
C16_IndependentKeepInputOrderDistinctNames ==
  DistinctNames(schemaFiles) => C16_IndependentKeepInputOrder

\* C16 amended: on an input with pairwise different base names every file is
\* returned once; two files neither of which depends on the other keep their
\* input order unless the later one is a dependency, direct or not, of a file
\* that stands before the earlier one in the input; an input without any
\* dependency is returned as it is
C16_StableTies ==
  pc = "sorted" /\ ~sortResult.threw /\ DistinctNames(schemaFiles) =>
    /\ Len(sortResult.order) = Len(schemaFiles)
    /\ \A i \in 1..Len(schemaFiles) : OutputPlace(schemaFiles[i]) > 0
    /\ \A i, j \in 1..Len(schemaFiles) :
         /\ i < j
         /\ Independent(schemaFiles, i, j)
         /\ \A k \in 1..(i - 1) : j \notin Reachable(schemaFiles, {k})
         => OutputPlace(schemaFiles[i]) < OutputPlace(schemaFiles[j])
    /\ (\A i \in 1..Len(schemaFiles) : schemaFiles[i].deps = <<>>)
         => sortResult.order = schemaFiles

\* three files: the second and the third are independent and keep their
\* order, the first depends on the third
C16_Witness ==
  /\ pc = "sorted"
  /\ ~sortResult.threw
  /\ DistinctNames(schemaFiles)
  /\ Len(schemaFiles) = 3
  /\ Declares(schemaFiles, 1, 3)
  /\ Independent(schemaFiles, 2, 3)
  /\ Independent(schemaFiles, 1, 2)
  /\ sortResult.order = <<schemaFiles[3], schemaFiles[1], schemaFiles[2]>>

----------------------------------------------------------------------------
(* The initialisation driver: lib/index.js, redisInit and                  *)
(* redisInitFromString, with the store calls of the steps it awaits.       *)

Failure(message) == [success |-> FALSE, error |-> message]

\* a step that goes on to `next` after making the calls `made`
GoOn(next, made) ==
  /\ ipc' = next
  /\ calls' = calls \o made
  /\ UNCHANGED <<client, initResult, quitCalls>>

\* (ReturnSkippingFinally: a return that resolves at once, the finally block
\* left out)
ReturnSkippingFinally(result, made) ==
  /\ ipc' = "done"
  /\ initResult' = result
  /\ calls' = calls \o made
  /\ UNCHANGED <<client, quitCalls>>

\* a return inside the try block: the finally block runs next
Return(result, made) ==
  /\ ipc' = "finally"
  /\ initResult' = result
  /\ calls' = calls \o made
  /\ UNCHANGED <<client, quitCalls>>

loadFrame == <<schemaFiles, config, pc, sortResult, fileIdx, batchStart, queued,
               inFlight, commandsExecuted, errorCount, execReply, txResult,
               loadResult, seen, content, parsed>>

\* client = createRedisClient(config)
InitCreate ==
  /\ ipc = "create"
  /\ IF config.createThrows
     THEN /\ ipc' = "finally"
          /\ initResult' = Failure("createClient threw")
          /\ UNCHANGED <<client, quitCalls, calls>>
     ELSE /\ ipc' = "connect"
          /\ client' = TRUE
          /\ UNCHANGED <<initResult, quitCalls, calls>>
  /\ UNCHANGED loadFrame

\* testConnection: client.connect() and client.info()
InitConnect ==
  /\ ipc = "connect"
  /\ \E connected \in BOOLEAN :
       IF connected
       THEN GoOn("select", <<Call("connect", <<>>), Call("info", <<>>)>>)
       ELSE Return(Failure("Failed to connect to Redis server"),
                   <<Call("connect", <<>>)>>)
  /\ UNCHANGED loadFrame

\* if (config.database !== 0) await client.select(config.database)
InitSelect ==
  /\ ipc = "select"
  /\ IF config.database # 0
     THEN \E selected \in BOOLEAN :
            IF selected
            THEN GoOn("health", <<Call("select", <<>>)>>)
            ELSE Return(Failure("Failed to select database"),
                        <<Call("select", <<>>)>>)
     ELSE GoOn("health", <<>>)
  /\ UNCHANGED loadFrame

\* performHealthCheck (redisInit only): ping, info, dbSize
InitHealth ==
  /\ ipc = "health"
  /\ IF config.performHealthCheck /\ ~config.fromString
     THEN \E healthy \in BOOLEAN :
            IF healthy
            THEN GoOn("backup", <<Call("ping", <<>>), Call("info", <<>>),
                                  Call("dbSize", <<>>)>>)
            ELSE Return(Failure("Redis health check failed"),
                        <<Call("ping", <<>>)>>)
     ELSE GoOn("backup", <<>>)
  /\ UNCHANGED loadFrame

\* (InitBackupUngated: the backup step, were its outcome not looked at)
InitBackupUngated ==
  /\ ipc = "backup"
  /\ \E saved \in BOOLEAN :
       GoOn("flush", IF ~config.backupFile THEN <<>>
                     ELSE IF saved THEN <<Call("keys", <<>>), Call("backupWritten", <<>>)>>
                     ELSE <<Call("keys", <<>>)>>)
  /\ UNCHANGED loadFrame

\* backupRedisData: reads the keys and their values, writes the backup file;
\* it reports success or failure, or throws, which the catch block of
\* redisInit turns into a failure result
InitBackup ==
  /\ ipc = "backup"
  /\ IF config.backupFile
     THEN \E outcome \in {"saved", "failed", "threw"} :
            IF outcome = "saved"
            THEN GoOn("flush", <<Call("keys", <<>>), Call("backupWritten", <<>>)>>)
            ELSE IF outcome = "failed"
            THEN Return(Failure("Backup failed"), <<Call("keys", <<>>)>>)
            ELSE Return(Failure("backupRedisData threw"), <<Call("keys", <<>>)>>)
     ELSE GoOn("flush", <<>>)
  /\ UNCHANGED loadFrame

\* flushDatabase (lib/client.js): the calls it makes on the store, given the
\* answer to its prompt and whether keys carry the prefix
FlushCalls(confirmed, found) ==
  IF ~config.flush \/ ~confirmed THEN <<>>
  ELSE IF config.flushMode = "all" THEN <<Call("flushAll", <<>>)>>
  ELSE IF config.flushMode = "prefix" /\ config.prefix # <<>>
  THEN IF found THEN <<Call("keys", <<>>), Call("del", <<>>)>>
       ELSE <<Call("keys", <<>>)>>
  ELSE <<Call("flushDb", <<>>)>>

\* if (config.flush) await flushDatabase(client, config): a failed flush is
\* a warning, the initialisation goes on
InitFlush ==
  /\ ipc = "flush"
  /\ \E confirmed \in (IF config.interactive THEN BOOLEAN ELSE {TRUE}) :
       \E found \in BOOLEAN :
         GoOn("scripts", FlushCalls(confirmed, found))
  /\ UNCHANGED loadFrame

\* registerLuaScripts (lib/lua-scripts.js): the calls it makes, given whether
\* SCRIPT LOAD succeeded
ScriptCalls(loaded) ==
  IF config.scripts = 0 \/ config.dryRun THEN <<>>
  ELSE IF loaded
  THEN <<Call("scriptLoad", <<>>), Call("del", <<>>), Call("hSet", <<>>)>>
  ELSE <<Call("scriptLoad", <<>>)>>

InitScripts ==
  /\ ipc = "scripts"
  /\ \E loaded \in BOOLEAN : GoOn("load", ScriptCalls(loaded))
  /\ UNCHANGED loadFrame

\* the call of loadSchemas(client, config) or loadSchemas(client, config, true)
InitLoad ==
  /\ ipc = "load"
  /\ pc = "idle"
  /\ ipc' = "loading"
  /\ pc' = "start"
  /\ UNCHANGED <<schemaFiles, config, sortResult, fileIdx, batchStart, queued,
                 inFlight, commandsExecuted, errorCount, execReply, txResult,
                 loadResult, client, initResult, quitCalls, calls, seen,
                 content, parsed>>

\* the load has resolved: if (!schemasLoaded.success) return failure
InitLoaded ==
  /\ ipc = "loading"
  /\ pc = "done"
  /\ IF loadResult.success
     THEN GoOn("ttl", <<>>)
     ELSE Return([success |-> FALSE, error |-> "Schema loading failed"], <<>>)
  /\ UNCHANGED loadFrame

\* applyTTL (lib/utils.js): the calls it makes, given whether keys match
TtlCalls(matched) ==
  IF ~config.ttlRules THEN <<>>
  ELSE IF matched
  THEN <<Call("keys", <<>>), Call("pipeline", <<>>), Call("expire", <<>>),
         Call("ttlExec", <<>>)>>
  ELSE <<Call("keys", <<>>)>>

InitTtl ==
  /\ ipc = "ttl"
  /\ \E matched \in BOOLEAN : GoOn("acl", TtlCalls(matched))
  /\ UNCHANGED loadFrame

\* configureAcl (lib/security.js): the calls it makes, given whether the
\* server's version supports ACL
AclCalls(supported) ==
  IF ~config.aclSetup THEN <<>>
  ELSE IF supported /\ ~config.dryRun
  THEN <<Call("info", <<>>), Call("aclSetUser", <<>>), Call("aclSave", <<>>)>>
  ELSE <<Call("info", <<>>)>>

InitAcl ==
  /\ ipc = "acl"
  /\ \E supported \in BOOLEAN : GoOn("validate", AclCalls(supported))
  /\ UNCHANGED loadFrame

\* validateSchemas, and the return of the success result
InitValidate ==
  /\ ipc = "validate"
  /\ Return([success |-> TRUE, commandsExecuted |-> loadResult.commandsExecuted],
            IF config.prefix # <<>>
            THEN <<Call("dbSize", <<>>), Call("keys", <<>>)>>
            ELSE <<Call("dbSize", <<>>)>>)
  /\ UNCHANGED loadFrame

\* finally { if (client) await client.quit() }: an error of quit is logged
InitFinally ==
  /\ ipc = "finally"
  /\ ipc' = "done"
  /\ IF client
     THEN /\ quitCalls' = quitCalls + 1
          /\ calls' = Append(calls, Call("quit", <<>>))
     ELSE UNCHANGED <<quitCalls, calls>>
  /\ UNCHANGED <<client, initResult>>
  /\ UNCHANGED loadFrame

----------------------------------------------------------------------------
(* The runs of redisInit.                                                  *)

\* one schema file, with or without a dependency nothing satisfies
InitInputs ==
  {<<SchemaFile(Path("p", "a"), d, 2)>> : d \in {<<>>, <<"b">>}}

\* the schema redisInitFromString is given
InitInline == {<<SchemaFile(Path("", "inline-schema"), <<>>, 2)>>}

\* the options that only matter once the store is reached are varied when
\* the connection steps are the plain ones
InitOptions ==
  {o \in [createThrows : BOOLEAN, database : {0, 1}, performHealthCheck : BOOLEAN,
          backupFile : BOOLEAN, flush : BOOLEAN, flushMode : {"all", "db", "prefix"},
          interactive : BOOLEAN, ttlRules : BOOLEAN, aclSetup : BOOLEAN,
          scripts : {0, 1}] :
     /\ o.createThrows \/ o.database # 0 \/ o.performHealthCheck =>
          ~o.backupFile /\ ~o.flush /\ ~o.ttlRules /\ ~o.aclSetup /\ o.scripts = 0
     /\ ~o.flush => o.flushMode = "db" /\ ~o.interactive}

InitLoadOptions ==
  [fromString : BOOLEAN, hasContent : {TRUE}, dirExists : {TRUE},
   dryRun : BOOLEAN, useTransactions : BOOLEAN,
   batchSize : {0}, prefix : {<<>>, <<"app:">>}]

RunInit ==
  /\ \E o \in InitOptions : \E l \in InitLoadOptions :
       /\ l.fromString => ~o.performHealthCheck
       /\ config = Merge(l, o)
       /\ schemaFiles \in (IF l.fromString THEN InitInline ELSE InitInputs)
  /\ pc = "idle"
  /\ LoadIdle
  /\ ipc = "create"
  /\ client = FALSE
  /\ initResult = NoResult
  /\ quitCalls = 0
  /\ seen = {}
  /\ content = <<>>
  /\ parsed = <<>>

InitNext ==
  \/ InitCreate \/ InitConnect \/ InitSelect \/ InitHealth \/ InitBackup
  \/ InitFlush \/ InitScripts \/ InitLoad \/ InitLoaded \/ InitTtl \/ InitAcl
  \/ InitValidate \/ InitFinally
  \/ LoadBegin \/ LoadFile \/ TxSubmit \/ TxSettle \/ BatchSubmit \/ BatchSettle

SpecInit == RunInit /\ [][InitNext]_vars

----------------------------------------------------------------------------
(* Properties of redisInit (checked under SpecInit).                       *)

\* the calls that change the store
Mutating ==
  {"flushAll", "flushDb", "del", "scriptLoad", "hSet", "exec", "expire",
   "ttlExec", "aclSetUser", "aclSave"}

\* C7: with dryRun set no state-changing operation is issued to the store
C7_DryRunChangesNothing ==
  config.dryRun => \A i \in 1..Len(calls) : calls[i].op \notin Mutating

----------------------------------------------------------------------------
(* The runs of executeInTransaction called on its own.                     *)

\* the commands the caller hands over: those of the only file, with the
\* prefix applied as the load applies it
TxCommands ==
  [k \in 1..Len(schemaFiles[1].commands) |-> Processed(schemaFiles[1].commands[k])]

\* were the guard of the empty list absent
TxEmptyNever(commands) == FALSE

\* if (commands.length === 0) return { success: true, commandsExecuted: 0 }
TxEmpty(commands) == Len(commands) = 0

TxInit ==
  /\ \E p \in LoadPaths : \E n \in 0..MaxCmds :
       schemaFiles = <<SchemaFile(p, <<>>, n)>>
  /\ \E opts \in LoadOptions :
       /\ ~opts.fromString /\ opts.hasContent /\ opts.dirExists
       /\ ~opts.dryRun /\ opts.useTransactions /\ opts.batchSize = 0
       /\ config = Merge(opts, NoInitOptions)
  /\ pc = "txcall"
  /\ LoadIdle
  /\ ipc = "none"
  /\ client = FALSE
  /\ initResult = NoResult
  /\ quitCalls = 0
  /\ seen = {}
  /\ content = <<>>
  /\ parsed = <<>>

\* executeInTransaction up to its first return or to the call of multi.exec():
\* thrower is the first command multi.sendCommand throws on, 0 if none
TxCall ==
  /\ pc = "txcall"
  /\ IF TxEmpty(TxCommands)
     THEN /\ txResult' = [success |-> TRUE, commandsExecuted |-> 0]
          /\ pc' = "txdone"
          /\ UNCHANGED <<queued, inFlight, calls>>
     ELSE \E thrower \in 0..Len(TxCommands) :
            IF thrower > 0
            THEN /\ txResult' = TxAddFailed("ERR rejected")
                 /\ queued' = [k \in 1..(thrower - 1) |-> Sent(TxCommands[k])]
                 /\ pc' = "txdone"
                 /\ calls' = Append(calls, Call("multi", <<>>))
                 /\ UNCHANGED inFlight
            ELSE /\ queued' = [k \in 1..Len(TxCommands) |-> Sent(TxCommands[k])]
                 /\ inFlight' = inFlight + 1
                 /\ pc' = "txexec"
                 /\ calls' = calls \o <<Call("multi", <<>>), Call("exec", queued')>>
                 /\ UNCHANGED txResult
  /\ UNCHANGED <<schemaFiles, config, sortResult, fileIdx, batchStart,
                 commandsExecuted, errorCount, execReply, loadResult>>
  /\ UNCHANGED initVars

\* multi.exec() settles and executeInTransaction returns
TxReturn ==
  /\ pc = "txexec"
  /\ \E reply \in ExecReplies(Len(queued)) :
       /\ execReply' = reply
       /\ txResult' = TxOutcome(TxCommands, reply)
  /\ inFlight' = inFlight - 1
  /\ pc' = "txdone"
  /\ calls' = Append(calls, Call("settled", <<>>))
  /\ UNCHANGED <<schemaFiles, config, sortResult, fileIdx, batchStart, queued,
                 commandsExecuted, errorCount, loadResult>>
  /\ UNCHANGED initVars

TxNext == TxCall \/ TxReturn

SpecTx == TxInit /\ [][TxNext]_vars

----------------------------------------------------------------------------
(* Properties of executeInTransaction (checked under SpecTx).              *)

ExecCalled == \E i \in 1..Len(calls) : calls[i].op = "exec"

\* C11: a throw while queuing ends the call at once: the transaction was
\* opened, exec is never called, the commands behind the thrower are not
\* queued and the result is the failure 'Failed to add command to
\* transaction: ...'; an empty list returns success with commandsExecuted = 0
\* and no transaction is opened
C11_QueueThrowStops ==
  pc = "txdone" =>
    /\ TxCommands = <<>> =>
         /\ calls = <<>>
         /\ txResult = [success |-> TRUE, commandsExecuted |-> 0]
    /\ TxCommands # <<>> /\ ~ExecCalled =>
         /\ calls = <<Call("multi", <<>>)>>
         /\ Len(queued) < Len(TxCommands)
         /\ inFlight = 0
         /\ execReply = NoReply
         /\ ~txResult.success
         /\ txResult.error.msg = "Failed to add command to transaction: "
    /\ ExecCalled => Len(queued) = Len(TxCommands)

\* the second of three commands threw
C11_Witness ==
  /\ pc = "txdone"
  /\ Len(TxCommands) = 3
  /\ Len(queued) = 1
  /\ ~ExecCalled
  /\ ~txResult.success

----------------------------------------------------------------------------
(* Two loads of the same files, one after the other: the caller keeps the  *)
(* result of the first and compares the result of the second with it.      *)

MaxPairCmds == 2    \* commands of the files of a compared load together

PairInputs ==
  {fs \in LoadInputs \cup InlineInputs : TotalCommands(fs) <= MaxPairCmds}

PairOptions ==
  {o \in LoadOptions : o.hasContent /\ o.dirExists /\ o.prefix = <<>> /\ o.batchSize <= 1}

\* the class of outcome of the load that has just resolved
OutcomeClass ==
  IF config.dryRun \/ StoppedEarly THEN "nothing attempted"
  ELSE IF config.useTransactions /\ errorCount > 0 THEN "atomically rejected"
  ELSE IF ~config.useTransactions /\ errorCount > 0 /\ commandsExecuted > 0
       THEN "partially applied"
  ELSE "other"

PairInit ==
  /\ schemaFiles \in PairInputs
  /\ \E opts \in PairOptions :
       /\ Coherent(opts, schemaFiles)
       /\ config = Merge(opts, NoInitOptions)
  /\ pc = "start"
  /\ LoadIdle
  /\ ipc = "none"
  /\ client = FALSE
  /\ initResult = NoResult
  /\ quitCalls = 0
  /\ seen = {}
  /\ content = <<>>
  /\ parsed = <<>>

\* the caller notes the result and loads the same files again, with options
\* of its choice
LoadAgain ==
  /\ pc = "done"
  /\ seen = {}
  /\ seen' = {[class |-> OutcomeClass, result |-> loadResult]}
  /\ \E opts \in PairOptions :
       /\ opts.fromString = config.fromString
       /\ Coherent(opts, schemaFiles)
       /\ config' = Merge(opts, NoInitOptions)
  /\ pc' = "start"
  /\ sortResult' = [threw |-> FALSE, order |-> <<>>, error |-> NoError]
  /\ fileIdx' = 0
  /\ batchStart' = 0
  /\ queued' = <<>>
  /\ inFlight' = 0
  /\ commandsExecuted' = 0
  /\ errorCount' = 0
  /\ execReply' = NoReply
  /\ txResult' = NoResult
  /\ loadResult' = NoResult
  /\ calls' = <<>>
  /\ UNCHANGED <<schemaFiles, ipc, client, initResult, quitCalls, content, parsed>>

PairNext ==
  \/ LoadBegin \/ LoadFile \/ TxSubmit \/ TxSettle \/ BatchSubmit \/ BatchSettle
  \/ LoadAgain

SpecPair == PairInit /\ [][PairNext]_vars

\* C14: two loads whose outcomes fall in different classes (nothing
\* attempted, partially applied, atomically rejected) never return equal
\* results
C14_ClassesTellApart ==
  pc = "done" =>
    \A e \in seen :
      /\ e.class # "other"
      /\ OutcomeClass # "other"
      /\ e.class # OutcomeClass
      => e.result # loadResult

----------------------------------------------------------------------------
(* The schema parser: lib/schema-loader.js, parseSchemaContent, with       *)
(* lib/lua-scripts.js, parseSchemaForLuaScripts.  A text is a sequence of  *)
(* pieces: a piece is one of the characters the parser looks at (space,    *)
(* tab, double quote, backslash, '#', ';', newline) or a run of other      *)
(* characters ("a", "SCRIPT:", "END_SCRIPT").  config.variables is empty   *)
(* in these runs, so the text is parsed as given.                          *)

MaxTextLen == 5      \* pieces of a text built piece by piece
MaxScriptLines == 4  \* lines of a text built from whole lines

\* what String.prototype.trim removes
Whitespace == {" ", "\t"}

\* content.split('\n')
split(text) ==
  LET RECURSIVE from(_, _, _)
      from(i, line, lines) ==
        IF i > Len(text) THEN Append(lines, line)
        ELSE IF text[i] = "\n" THEN from(i + 1, <<>>, Append(lines, line))
        ELSE from(i + 1, Append(line, text[i]), lines)
  IN from(1, <<>>, <<>>)

\* String.prototype.trim
trim(line) ==
  LET kept == {i \in 1..Len(line) : line[i] \notin Whitespace}
  IN IF kept = {} THEN <<>>
     ELSE SubSeq(line, CHOOSE i \in kept : \A j \in kept : i <= j,
                       CHOOSE i \in kept : \A j \in kept : j <= i)

\* line.replace(/#.*$/, '')
stripComment(line) ==
  LET marks == {i \in 1..Len(line) : line[i] = "#"}
  IN IF marks = {} THEN line
     ELSE SubSeq(line, 1, (CHOOSE i \in marks : \A j \in marks : i <= j) - 1)

\* parseSchemaForLuaScripts(lines, startIndex): the index of the END_SCRIPT
\* line of the block that starts at startIndex, 0 where the code returns null
parseSchemaForLuaScripts(lines, startIndex) ==
  LET raw == lines[startIndex]
      ends == {i \in (startIndex + 1)..Len(lines) : trim(lines[i]) = <<"END_SCRIPT">>}
  IN IF raw = <<>> \/ raw[1] # "SCRIPT:" THEN 0
     ELSE IF trim(Tail(raw)) = <<>> THEN 0
     ELSE IF ends = {} THEN 0
     ELSE CHOOSE i \in ends : \A j \in ends : i <= j

\* the quote stripping of a finished part
unquote(currentPart) ==
  IF /\ Len(currentPart) > 1
     /\ currentPart[1] = "\""
     /\ currentPart[Len(currentPart)] = "\""
  THEN SubSeq(currentPart, 2, Len(currentPart) - 1)
  ELSE currentPart

\* the character loop over commandStr, splitting at the characters of seps
tokenize(commandStr, seps) ==
  LET push(parts, currentPart) ==
        IF currentPart # <<>> THEN Append(parts, unquote(currentPart)) ELSE parts
      RECURSIVE scan(_, _, _, _)
      scan(i, parts, currentPart, inQuotes) ==
        IF i > Len(commandStr) THEN push(parts, currentPart)
        ELSE LET char == commandStr[i]
                 quoted == IF char = "\"" /\ (i = 1 \/ commandStr[i - 1] # "\\")
                           THEN ~inQuotes ELSE inQuotes
             IN IF char \in seps /\ ~quoted
                THEN scan(i + 1, push(parts, currentPart), <<>>, quoted)
                ELSE scan(i + 1, parts, Append(currentPart, char), quoted)
  IN scan(1, <<>>, <<>>, FALSE)

\* the values commandStr takes: the text of each ';'-terminated command, its
\* lines joined by one space and its ';' dropped
statements(text) ==
  LET lines == split(text)
      RECURSIVE loop(_, _, _)
      loop(i, currentCommand, out) ==
        IF i > Len(lines) THEN out
        ELSE LET line == trim(stripComment(lines[i]))
                 scriptEnd == IF line # <<>> /\ line[1] = "SCRIPT:"
                              THEN parseSchemaForLuaScripts(lines, i) ELSE 0
                 joined == IF currentCommand = <<>> THEN line
                           ELSE currentCommand \o <<" ">> \o line
             IN IF line = <<>> THEN loop(i + 1, currentCommand, out)
                ELSE IF scriptEnd # 0 THEN loop(scriptEnd + 1, currentCommand, out)
                ELSE IF line[Len(line)] = ";"
                     THEN loop(i + 1, <<>>, Append(out, SubSeq(joined, 1, Len(joined) - 1)))
                     ELSE loop(i + 1, joined, out)
  IN loop(1, <<>>, <<>>)

\* the commands parseSchemaContent returns
parseSchemaContent(text) ==
  LET st == statements(text)
  IN SelectSeq([k \in 1..Len(st) |-> tokenize(st[k], {" "})], LAMBDA parts : parts # <<>>)

\* the texts of the runs: every text of at most MaxTextLen pieces, and the
\* texts of at most MaxScriptLines lines drawn from ScriptLines
Pieces == {"a", " ", "\t", "\"", "\\", "#", ";", "\n"}

ScriptLines ==
  { <<"SCRIPT:", "a">>, <<" ", "SCRIPT:", "a">>, <<"END_SCRIPT">>,
    <<" ", "END_SCRIPT">>, <<"a", ";">>, <<"a">>, <<>> }

RECURSIVE joinLines(_)
joinLines(lines) ==
  IF lines = <<>> THEN <<>>
  ELSE IF Len(lines) = 1 THEN lines[1]
  ELSE lines[1] \o <<"\n">> \o joinLines(Tail(lines))

ParseInit ==
  /\ \/ \E n \in 0..MaxTextLen : content \in [1..n -> Pieces]
     \/ \E n \in 1..MaxScriptLines : \E ls \in [1..n -> ScriptLines] :
          content = joinLines(ls)
  /\ parsed = <<>>
  /\ schemaFiles = <<>>
  /\ config = [variables |-> <<>>]
  /\ pc = "parse"
  /\ LoadIdle
  /\ ipc = "none"
  /\ client = FALSE
  /\ initResult = NoResult
  /\ quitCalls = 0
  /\ seen = {}

\* a call of parseSchemaContent(content, schemaName, config)
ParseCall ==
  /\ pc = "parse"
  /\ parsed' = parseSchemaContent(content)
  /\ pc' = "parsed"
  /\ UNCHANGED <<schemaFiles, config, sortResult, fileIdx, batchStart, queued,
                 inFlight, commandsExecuted, errorCount, execReply, txResult,
                 loadResult, ipc, client, initResult, quitCalls, calls, seen,
                 content>>

ParseNext == ParseCall

SpecParse == ParseInit /\ [][ParseNext]_vars

\* a tag line of a script block, indented or not: SCRIPT: and a name
TagLine(line) ==
  LET t == trim(line) IN t # <<>> /\ t[1] = "SCRIPT:" /\ trim(Tail(t)) # <<>>

EndLine(line) == trim(line) = <<"END_SCRIPT">>

\* the lines outside the script blocks, and whether the tag and terminator
\* lines pair up (a tag line inside a block is body)
RECURSIVE OutsideBlocks(_, _, _)
OutsideBlocks(lines, inBlock, out) ==
  IF lines = <<>> THEN [balanced |-> ~inBlock, lines |-> out]
  ELSE IF inBlock
       THEN OutsideBlocks(Tail(lines), ~EndLine(Head(lines)), out)
       ELSE IF TagLine(Head(lines)) THEN OutsideBlocks(Tail(lines), TRUE, out)
       ELSE IF EndLine(Head(lines)) THEN [balanced |-> FALSE, lines |-> out]
       ELSE OutsideBlocks(Tail(lines), FALSE, Append(out, Head(lines)))

ScriptsRemoved == OutsideBlocks(split(content), FALSE, <<>>)

Indented(line) == line # <<>> /\ line[1] \in Whitespace

\* C17: of a text whose SCRIPT:/END_SCRIPT lines pair up, tag lines indented
\* or not, the commands returned are those of the text without its script
\* blocks
C17_ScriptBlocksSkipped ==
  pc = "parsed" /\ ScriptsRemoved.balanced
    => parsed = parseSchemaContent(joinLines(ScriptsRemoved.lines))

\* the same, of the texts none of whose tag lines is indented
C17_UnindentedBlocksSkipped ==
  /\ pc = "parsed"
  /\ ScriptsRemoved.balanced
  /\ \A i \in 1..Len(split(content)) :
       TagLine(split(content)[i]) => ~Indented(split(content)[i])
  => parsed = parseSchemaContent(joinLines(ScriptsRemoved.lines))

\* the tokens of a command text when it is split at whitespace outside
\* double-quoted spans
AtWhitespace(text) ==
  LET st == statements(text)
  IN SelectSeq([k \in 1..Len(st) |-> tokenize(st[k], Whitespace)],
               LAMBDA parts : parts # <<>>)

\* the text written on one line: its lines, trimmed, joined by one space
RECURSIVE OneLine(_)
OneLine(lines) ==
  IF lines = <<>> THEN <<>>
  ELSE LET rest == OneLine(Tail(lines))
       IN IF trim(Head(lines)) = <<>> THEN rest
          ELSE IF rest = <<>> THEN trim(Head(lines))
          ELSE trim(Head(lines)) \o <<" ">> \o rest

\* a text that is one command: no comment, no script tag, and ';' ends its
\* last line and no other
OneCommand(text) ==
  LET lines == split(text)
  IN /\ \A i \in 1..Len(text) : text[i] \notin {"#", "SCRIPT:"}
     /\ \A i \in 1..Len(lines) :
          (trim(lines[i]) # <<>> /\ trim(lines[i])[Len(trim(lines[i]))] = ";")
            <=> i = Len(lines)

\* C18: the commands returned are the ';'-terminated command texts split at
\* whitespace outside double-quoted spans (a quote toggles unless a backslash
\* precedes it, a fully quoted token loses its quotes); a command spread over
\* several lines gives the tokens it gives on one line; no command is empty
C18_TokensAtWhitespace ==
  pc = "parsed" =>
    /\ parsed = AtWhitespace(content)
    /\ OneCommand(content) => parsed = parseSchemaContent(OneLine(split(content)))
    /\ \A k \in 1..Len(parsed) : parsed[k] # <<>>

\* the same, of the texts without a tab
C18_TokensAtSpaces ==
  pc = "parsed" /\ (\A i \in 1..Len(content) : content[i] # "\t") =>
    /\ parsed = AtWhitespace(content)
    /\ OneCommand(content) => parsed = parseSchemaContent(OneLine(split(content)))
    /\ \A k \in 1..Len(parsed) : parsed[k] # <<>>

\* a line up to its first comment marker that no backslash precedes
Uncommented(line) ==
  LET marks == {i \in 1..Len(line) : line[i] = "#" /\ (i = 1 \/ line[i - 1] # "\\")}
  IN IF marks = {} THEN line
     ELSE SubSeq(line, 1, (CHOOSE i \in marks : \A j \in marks : i <= j) - 1)

\* the lines of the text that are not blank once comment and surrounding
\* whitespace are stripped
NonBlank(text) ==
  SelectSeq(split(text), LAMBDA line : trim(stripComment(line)) # <<>>)

\* C19: of each line the parser keeps the text before the first unescaped
\* '#', without surrounding whitespace (an escaped '#' starts no comment),
\* and the lines left blank contribute nothing to the commands
C19_TrailingCommentStripped ==
  pc = "parsed" =>
    /\ \A i \in 1..Len(split(content)) :
         trim(stripComment(split(content)[i])) = trim(Uncommented(split(content)[i]))
    /\ parsed = parseSchemaContent(joinLines(NonBlank(content)))

\* the same, of the texts in which no backslash precedes a '#'
C19_NoEscapedMarker ==
  /\ pc = "parsed"
  /\ \A i \in 2..Len(content) : ~(content[i] = "#" /\ content[i - 1] = "\\")
  => /\ \A i \in 1..Len(split(content)) :
          trim(stripComment(split(content)[i])) = trim(Uncommented(split(content)[i]))
     /\ parsed = parseSchemaContent(joinLines(NonBlank(content)))

----------------------------------------------------------------------------
(* Template variables: processTemplate(content, variables).  A text is a   *)
(* sequence of pieces: "${" and "}" are the characters the pattern looks   *)
(* at, every other piece a run of characters without '}'.  variables is a  *)
(* function from the names it holds as own properties to their values.     *)

MaxTemplateLen == 6  \* pieces of a template text

\* the names a plain object answers without holding them: variables[varName]
\* looks a name up along the prototype chain (one of them stands for all)
Inherited == {<<"constructor">>}

InheritedValue == <<"function Object() { [native code] }">>

\* variables[varName] !== undefined, for an object that inherits protoNames
Defined(variables, varName, protoNames) ==
  varName \in DOMAIN variables \/ varName \in protoNames

\* variables[varName]
Lookup(variables, varName) ==
  IF varName \in DOMAIN variables THEN variables[varName] ELSE InheritedValue

\* content.replace(/\${([^}]+)}/g, ...): the matches are found on the text
\* as given, from left to right, none overlapping an earlier one; protoNames
\* are the names variables inherits
replaceMarkers(text, variables, protoNames) ==
  LET closing(i) == {j \in (i + 1)..Len(text) : text[j] = "}"}
      first(i) == CHOOSE j \in closing(i) : \A k \in closing(i) : j <= k
      matches(i) == text[i] = "${" /\ closing(i) # {} /\ first(i) > i + 1
      RECURSIVE scan(_, _)
      scan(i, out) ==
        IF i > Len(text) THEN out
        ELSE IF matches(i)
             THEN LET varName == SubSeq(text, i + 1, first(i) - 1)
                      match == SubSeq(text, i, first(i))
                  IN scan(first(i) + 1,
                          out \o (IF Defined(variables, varName, protoNames)
                                  THEN Lookup(variables, varName) ELSE match))
             ELSE scan(i + 1, Append(out, text[i]))
  IN scan(1, <<>>)

processTemplate(text, variables) ==
  IF DOMAIN variables = {} THEN text
  ELSE replaceMarkers(text, variables, Inherited)

TemplatePieces == {"${", "}", "N", "M", "constructor"}

\* variables: N absent or one of three values (a plain one, one that holds
\* a marker, the empty string), M absent or a plain value
TemplateVariables ==
  LET ns == {<<>>} \cup {<< <<"N">>, v >> : v \in {<<"v">>, <<"${", "M", "}">>, <<>>}}
      ms == {<<>>, << <<"M">>, <<"w">> >>}
      bind(n, m) == [name \in (IF n = <<>> THEN {} ELSE {n[1]})
                            \cup (IF m = <<>> THEN {} ELSE {m[1]})
                       |-> IF n # <<>> /\ name = n[1] THEN n[2] ELSE m[2]]
  IN {bind(n, m) : n \in ns, m \in ms}

TemplateInit ==
  /\ \E n \in 0..MaxTemplateLen : content \in [1..n -> TemplatePieces]
  /\ \E vs \in TemplateVariables : config = [variables |-> vs]
  /\ parsed = <<>>
  /\ schemaFiles = <<>>
  /\ pc = "template"
  /\ LoadIdle
  /\ ipc = "none"
  /\ client = FALSE
  /\ initResult = NoResult
  /\ quitCalls = 0
  /\ seen = {}

\* a call of processTemplate(content, config.variables)
TemplateCall ==
  /\ pc = "template"
  /\ parsed' = processTemplate(content, config.variables)
  /\ pc' = "templated"
  /\ UNCHANGED <<schemaFiles, config, sortResult, fileIdx, batchStart, queued,
                 inFlight, commandsExecuted, errorCount, execReply, txResult,
                 loadResult, ipc, client, initResult, quitCalls, calls, seen,
                 content>>

TemplateNext == TemplateCall

SpecTemplate == TemplateInit /\ [][TemplateNext]_vars

\* C20: the result is the text with each marker ${NAME} replaced by the
\* configured value exactly when variables contains NAME, every other marker
\* and all other text as they were, the markers taken from the text in one
\* pass from left to right (a marker inside a substituted value stays)
C20_MarkersOfVariablesReplaced ==
  pc = "templated" =>
    parsed = replaceMarkers(content, config.variables, {})

\* the same, of the texts that name no inherited property
C20_OwnNamesReplaced ==
  /\ pc = "templated"
  /\ \A i \in 1..Len(content) : <<content[i]>> \notin Inherited
  => parsed = replaceMarkers(content, config.variables, {})

----------------------------------------------------------------------------
(* The key prefix rewriter on its own: applyPrefixToCommand(command,       *)
(* prefix) on one command.  content is the command, config.prefix the      *)
(* prefix (the empty sequence for '', null or undefined), parsed the       *)
(* command returned.                                                       *)

MaxArgs == 4         \* tokens after the verb

\* verbs of every family of the rule table, some in lower or mixed case, and
\* two spellings of a verb no rule names
PrefixVerbs ==
  {"SET", "hset", "Del", "DEL", "EXISTS", "SUNION", "SDIFFSTORE", "SMOVE",
   "MSET", "MGET", "RENAME", "SCAN", "EVAL", "eval", "EVALSHA", "PING", "ping"}

ArgTokens == {<<"k">>, <<"j">>, <<"1">>, <<"2">>}

PrefixInit ==
  /\ \/ content = <<>>
     \/ \E v \in PrefixVerbs : \E n \in 0..MaxArgs : \E args \in [1..n -> ArgTokens] :
          content = << <<v>> >> \o args
  /\ \E p \in {<<>>, <<"p", ":">>} : config = [prefix |-> p]
  /\ parsed = <<>>
  /\ schemaFiles = <<>>
  /\ pc = "prefix"
  /\ LoadIdle
  /\ ipc = "none"
  /\ client = FALSE
  /\ initResult = NoResult
  /\ quitCalls = 0
  /\ seen = {}

\* a call of applyPrefixToCommand(content, config.prefix)
PrefixCall ==
  /\ pc = "prefix"
  /\ parsed' = applyPrefixToCommand(content, config.prefix)
  /\ pc' = "prefixed"
  /\ UNCHANGED <<schemaFiles, config, sortResult, fileIdx, batchStart, queued,
                 inFlight, commandsExecuted, errorCount, execReply, txResult,
                 loadResult, ipc, client, initResult, quitCalls, calls, seen,
                 content>>

PrefixNext == PrefixCall

SpecPrefix == PrefixInit /\ [][PrefixNext]_vars

\* C21: with an empty (or absent) prefix the command returned is the command
\* given, token for token, the letter case of its verb included; so it is for
\* the empty command with any prefix
C21_EmptyPrefixIdentity ==
  pc = "prefixed" /\ (config.prefix = <<>> \/ content = <<>>) => parsed = content

\* the rewriter returned a lower-case verb as given, for an empty prefix
C21_Witness ==
  /\ pc = "prefixed"
  /\ config.prefix = <<>>
  /\ Len(content) > 1
  /\ content[1] = <<"hset">>
  /\ parsed = content

\* the number a key count token of the runs writes, 0 if it writes none
CountOf(token) ==
  IF token = <<"1">> THEN 1 ELSE IF token = <<"2">> THEN 2 ELSE 0

ScriptCall(command) ==
  /\ Len(command) >= 3
  /\ command[1] \in {<<"EVAL">>, <<"eval">>, <<"EVALSHA">>}
  /\ CountOf(command[3]) > 0

\* C22: of EVAL / EVALSHA with a non-empty prefix the script identity and the
\* key count n come back unchanged, the n tokens after the count come back
\* with the prefix in front, and every later token comes back unchanged
C22_ScriptKeysPrefixed ==
  pc = "prefixed" /\ config.prefix # <<>> /\ ScriptCall(content) =>
    /\ Len(parsed) = Len(content)
    /\ parsed[2] = content[2]
    /\ parsed[3] = content[3]
    /\ \A i \in 4..Len(content) :
         parsed[i] = IF i <= 3 + CountOf(content[3])
                     THEN config.prefix \o content[i] ELSE content[i]

\* EVALSHA with key count 1 and two tokens after it: the first was prefixed,
\* the second was not
C22_Witness ==
  /\ pc = "prefixed"
  /\ config.prefix = <<"p", ":">>
  /\ content = << <<"EVALSHA">>, <<"k">>, <<"1">>, <<"k">>, <<"j">> >>
  /\ parsed = << <<"EVALSHA">>, <<"k">>, <<"1">>, <<"p", ":", "k">>, <<"j">> >>

\* the verbs of the runs that no case of the switch and no entry of
\* firstArgKeyCommands names
UnknownVerbs == {<<"PING">>, <<"ping">>}

\* C23 (as stated): a command whose verb is outside all rewrite families
\* comes back from a non-empty prefix with every token, the verb included,
\* equal to the token given
C23_UnknownVerbUnmodified ==
  /\ pc = "prefixed"
  /\ config.prefix # <<>>
  /\ content # <<>>
  /\ content[1] \in UnknownVerbs
  => parsed = content

\* C23 (amended): such a command comes back with every argument equal to the
\* argument given and with its verb in upper case
C23_UnknownVerbArgumentsKept ==
  /\ pc = "prefixed"
  /\ config.prefix # <<>>
  /\ content # <<>>
  /\ content[1] \in UnknownVerbs
  => /\ Len(parsed) = Len(content)
     /\ parsed[1] = <<"PING">>
     /\ \A i \in 2..Len(content) : parsed[i] = content[i]

\* ping k came back as PING k
C23_Witness ==
  /\ pc = "prefixed"
  /\ config.prefix = <<"p", ":">>
  /\ content = << <<"ping">>, <<"k">> >>
  /\ parsed = << <<"PING">>, <<"k">> >>

\* the positions (in the command, the verb being 1) of the arguments that
\* name a key, for the verbs of the runs that take keys: every argument of
\* DEL, EXISTS, SUNION and SDIFFSTORE, the first two of SMOVE and RENAME, the
\* first of SET and HSET, the odd ones of MSET, every one of MGET
KeyPositions(command) ==
  LET verb == toUpperCase(command[1])
      n == Len(command)
  IN CASE verb \in {<<"DEL">>, <<"EXISTS">>, <<"SUNION">>, <<"SDIFFSTORE">>, <<"MGET">>} -> 2..n
       [] verb \in {<<"SMOVE">>, <<"RENAME">>} -> {i \in 2..n : i <= 3}
       [] verb \in {<<"SET">>, <<"HSET">>} -> {i \in 2..n : i = 2}
       [] verb = <<"MSET">> -> {i \in 2..n : i % 2 = 0}
       [] OTHER -> {}

StartsWith(token, prefix) ==
  Len(token) >= Len(prefix) /\ SubSeq(token, 1, Len(prefix)) = prefix

\* C27: with a non-empty prefix every argument of the rewritten command that
\* names a key starts with the prefix, also when the command carries several
\* keys (DEL k1 k2, EXISTS k1 k2, SUNION k1 k2, SDIFFSTORE dst k1 k2,
\* SMOVE src dst m)
C27_KeysInNamespace ==
  pc = "prefixed" /\ config.prefix # <<>> /\ content # <<>> =>
    \A i \in KeyPositions(content) : StartsWith(parsed[i], config.prefix)

\* the same, of the commands whose verb takes one key, and of MSET, MGET and
\* RENAME with both its keys
C27_LeadingKeyInNamespace ==
  /\ pc = "prefixed"
  /\ config.prefix # <<>>
  /\ content # <<>>
  /\ \/ /\ Cardinality(KeyPositions(content)) <= 1
        /\ toUpperCase(content[1]) \notin {<<"SMOVE">>, <<"RENAME">>}
     \/ toUpperCase(content[1]) \in {<<"MSET">>, <<"MGET">>}
     \/ toUpperCase(content[1]) = <<"RENAME">> /\ Len(content) >= 3
  => \A i \in KeyPositions(content) : StartsWith(parsed[i], config.prefix)

----------------------------------------------------------------------------
(* The script block extractor: lib/lua-scripts.js, findLuaScriptsInSchema. *)
(* content is the schema text, config.sourceName the source given, parsed  *)
(* the list of scripts returned.                                           *)

\* the script parseSchemaForLuaScripts describes for the block that starts at
\* startIndex and ends at endIndex
scriptInfo(lines, startIndex, endIndex, sourceName) ==
  [name |-> trim(Tail(lines[startIndex])),
   script |-> joinLines(SubSeq(lines, startIndex + 1, endIndex - 1)),
   source |-> sourceName]

findLuaScriptsInSchema(text, sourceName) ==
  LET lines == split(text)
      RECURSIVE loop(_, _)
      loop(i, scripts) ==
        IF i > Len(lines) THEN scripts
        ELSE LET t == trim(lines[i])
                 endIndex == IF t # <<>> /\ t[1] = "SCRIPT:"
                             THEN parseSchemaForLuaScripts(lines, i) ELSE 0
             IN IF endIndex # 0
                THEN loop(endIndex + 1,
                          Append(scripts, scriptInfo(lines, i, endIndex, sourceName)))
                ELSE loop(i + 1, scripts)
  IN loop(1, <<>>)

\* the lines of the texts: tags of two names, plain and indented, a tag
\* without a name, the terminator, plain and indented, a body line
FindLines ==
  { <<"SCRIPT:", " ", "a">>, <<"SCRIPT:", " ", "b">>, <<" ", "SCRIPT:", " ", "a">>,
    <<"SCRIPT:">>, <<"END_SCRIPT">>, <<" ", "END_SCRIPT">>, <<"x">>, <<" ", "x">> }

FindInit ==
  /\ \E n \in 1..MaxScriptLines : \E ls \in [1..n -> FindLines] :
       content = joinLines(ls)
  /\ config = [sourceName |-> "test.redis"]
  /\ parsed = <<>>
  /\ schemaFiles = <<>>
  /\ pc = "find"
  /\ LoadIdle
  /\ ipc = "none"
  /\ client = FALSE
  /\ initResult = NoResult
  /\ quitCalls = 0
  /\ seen = {}

\* a call of findLuaScriptsInSchema(content, config.sourceName)
FindCall ==
  /\ pc = "find"
  /\ parsed' = findLuaScriptsInSchema(content, config.sourceName)
  /\ pc' = "found"
  /\ UNCHANGED <<schemaFiles, config, sortResult, fileIdx, batchStart, queued,
                 inFlight, commandsExecuted, errorCount, execReply, txResult,
                 loadResult, ipc, client, initResult, quitCalls, calls, seen,
                 content>>

FindNext == FindCall

SpecFind == FindInit /\ [][FindNext]_vars

\* the scripts of the SCRIPT: <name> / END_SCRIPT pairs of the lines, in
\* order of appearance: trimmed name, body the lines strictly between the
\* markers joined by newlines; a tag line inside a block is body
RECURSIVE PairScripts(_, _, _, _)
PairScripts(lines, i, open, scripts) ==
  IF i > Len(lines) THEN scripts
  ELSE IF open = 0
       THEN PairScripts(lines, i + 1, IF TagLine(lines[i]) THEN i ELSE 0, scripts)
       ELSE IF EndLine(lines[i])
            THEN PairScripts(lines, i + 1, 0,
                   Append(scripts,
                          [name |-> trim(Tail(trim(lines[open]))),
                           script |-> joinLines(SubSeq(lines, open + 1, i - 1)),
                           source |-> config.sourceName]))
            ELSE PairScripts(lines, i + 1, open, scripts)

\* C24: of a text whose SCRIPT: / END_SCRIPT lines pair up, tag lines with
\* leading whitespace or without, the scripts returned are one per pair, in
\* order of appearance, each with the trimmed name, the source given and the
\* lines strictly between the markers, joined by newlines, as body
C24_OneScriptPerPair ==
  pc = "found" /\ ScriptsRemoved.balanced
    => parsed = PairScripts(split(content), 1, 0, <<>>)

\* the same, of the texts none of whose tag lines is indented
C24_UnindentedPairsFound ==
  /\ pc = "found"
  /\ ScriptsRemoved.balanced
  /\ \A i \in 1..Len(split(content)) :
       TagLine(split(content)[i]) => ~Indented(split(content)[i])
  => parsed = PairScripts(split(content), 1, 0, <<>>)

\* the text holds a tag at line i with no END_SCRIPT of its own, then a
\* complete block from a tag at line j to the only END_SCRIPT, at line k
Unterminated(lines, i, j, k) ==
  /\ i < j /\ j < k
  /\ TagLine(lines[i]) /\ TagLine(lines[j]) /\ EndLine(lines[k])
  /\ \A m \in 1..Len(lines) :
       /\ TagLine(lines[m]) => m \in {i, j}
       /\ EndLine(lines[m]) => m = k

\* no script comes from a tag without a name or from a text without an
\* END_SCRIPT line
InvalidTagsYieldNone ==
  /\ \A n \in 1..Len(parsed) : parsed[n].name # <<>>
  /\ (\A m \in 1..Len(split(content)) : ~EndLine(split(content)[m])) => parsed = <<>>

\* C25: when a tag without an END_SCRIPT of its own is followed by a complete
\* block, the scripts returned are the complete one alone, named by the
\* second tag; a tag with an empty name or with no END_SCRIPT after it yields
\* no script
C25_CompleteBlockAlone ==
  pc = "found" =>
    /\ \A i, j, k \in 1..Len(split(content)) :
         Unterminated(split(content), i, j, k) =>
           parsed = << [name |-> trim(Tail(trim(split(content)[j]))),
                        script |-> joinLines(SubSeq(split(content), j + 1, k - 1)),
                        source |-> config.sourceName] >>
    /\ InvalidTagsYieldNone

\* the second part alone
C25_InvalidTagsYieldNone == pc = "found" => InvalidTagsYieldNone

----------------------------------------------------------------------------
(* Further properties of redisInit / redisInitFromString (SpecInit).       *)

QuitsIn(cs) == Cardinality({i \in 1..Len(cs) : cs[i].op = "quit"})

----------------------------------------------------------------------------
(* A further property of the resolver (SpecSort).                          *)

\* each file of fs occurs exactly once in order, and nothing else occurs
Permutation(order, fs) ==
  /\ Len(order) = Len(fs)
  /\ \A i \in 1..Len(fs) :
       Cardinality({k \in 1..Len(order) : order[k] = fs[i]}) = 1

\* C28: on an acyclic, fully satisfied input the order returned is a
\* permutation of the input, also when two files of different directories
\* share a base name
C28_OutputIsPermutation ==
  pc = "sorted" /\ ~HasCycle(schemaFiles) /\ ~HasMissing(schemaFiles) =>
    ~sortResult.threw /\ Permutation(sortResult.order, schemaFiles)

\* the same, of the inputs whose base names are pairwise different
C28_PermutationDistinctNames ==
  /\ pc = "sorted"
  /\ ~HasCycle(schemaFiles)
  /\ ~HasMissing(schemaFiles)
  /\ DistinctNames(schemaFiles)
  => ~sortResult.threw /\ Permutation(sortResult.order, schemaFiles)

----------------------------------------------------------------------------
(* A further property of the load (Spec).                                  *)

\* C29: in pipelined mode commandsExecuted is exact at every point: a settled
\* exec adds the number of commands that were added to its pipeline if it
\* completed without error and nothing if it failed (so a command whose
\* preparation threw is never counted), and the counter never decreases nor
\* exceeds the number of parsed commands
C29_ExecutedCountExact ==
  /\ [][~config.useTransactions /\ ~config.dryRun /\ pc = "awaitBatch" =>
          commandsExecuted' = commandsExecuted
            + (IF execReply'.rejected THEN 0 ELSE Len(queued))]_vars
  /\ [][commandsExecuted' >= commandsExecuted]_vars
  /\ [](commandsExecuted <= Len(Flat(schemaFiles)))

\* the same, of the batches none of whose commands was left out of the
\* pipeline
C29_ExactWhenAllPrepared ==
  /\ [][/\ ~config.useTransactions /\ ~config.dryRun /\ pc = "awaitBatch"
        /\ Len(queued) = Len(Slice(CurrentCommands, batchStart, batchStart + BatchSize))
        => commandsExecuted' = commandsExecuted
             + (IF execReply'.rejected THEN 0 ELSE Len(queued))]_vars
  /\ [][commandsExecuted' >= commandsExecuted]_vars
  /\ [](commandsExecuted <= Len(Flat(schemaFiles)))

----------------------------------------------------------------------------
(* A further property of redisInit / redisInitFromString (SpecInit).       *)

\* the i-th call is one flushDatabase makes to empty the store (its del
\* follows its own keys call)
FlushAt(i) ==
  \/ calls[i].op \in {"flushAll", "flushDb"}
  \/ calls[i].op = "del" /\ i > 1 /\ calls[i - 1].op = "keys"

\* the i-th call submits schema commands
SchemaAt(i) == calls[i].op \in {"multi", "exec"}

BackupDone(i) == \E j \in 1..(i - 1) : calls[j].op = "backupWritten"

\* the backup step is over and has not succeeded
BackupFailed ==
  /\ config.backupFile
  /\ ipc \notin {"create", "connect", "select", "health", "backup"}
  /\ ~BackupDone(Len(calls) + 1)

\* a failed backup: the result is a failure, and nothing was flushed, no
\* script registered, no schema command submitted
FailedBackupStops ==
  BackupFailed =>
    /\ "success" \in DOMAIN initResult /\ ~initResult.success
    /\ \A i \in 1..Len(calls) :
         ~FlushAt(i) /\ ~SchemaAt(i) /\ calls[i].op # "scriptLoad"

C30_FlushedWitness ==
  /\ config.backupFile
  /\ \E i, j \in 1..Len(calls) : FlushAt(i) /\ SchemaAt(j)

====
